---- MODULE Spec2Model ----
(***************************************************************************)
(* Model of the agent orchestration loop of the AI chat panel:             *)
(* AgentRunner.run, AgentRunner.executeHandoff and                         *)
(* UnifiedLLMClient.parseResponse.                                         *)
(*                                                                         *)
(* A run is a frame on a call stack; a handoff pushes the frame of the     *)
(* target agent's run and the delegator waits for it (the recursive        *)
(* `await AgentRunner.run(...)`).  The Gateway (llm.call), the tools       *)
(* (tool.execute) and enhancePromptWithPageContext are external: their     *)
(* outcomes are chosen nondeterministically.  A value thrown by an         *)
(* external call is an Error or a string (it has a message to format).     *)
(***************************************************************************)
EXTENDS Integers, Sequences, FiniteSets, TLC

\* ---------------------------------------------------------------- bounds
\* iteration budget of the top-level agent (config.maxIterations)
MaxIter == 2
\* longest chain of nested runs (the code has no limit of its own)
MaxDepth == 2
\* longest history of earlier turns a delegator starts with, in segments
MaxSegs == 3

\* ------------------------------------------------------------- vocabulary
NoId == 0
OrdinaryTools == {"search", "calc"}
AgentNames == {"A", "B"}

HandoffToolName(target) == "handoff_to_" \o target

\* names the model may put in a function call
CallNames ==
  OrdinaryTools \cup {"bogus"} \cup {HandoffToolName(t) : t \in AgentNames \cup {"ghost"}}

\* ------------------------------------------------------------ chat messages
UserMessage(text) ==
  [entity |-> "user", action |-> "", toolName |-> "", toolCallId |-> NoId,
   isError |-> FALSE, text |-> text]

ModelToolMessage(toolName, toolCallId) ==
  [entity |-> "model", action |-> "tool", toolName |-> toolName,
   toolCallId |-> toolCallId, isError |-> FALSE, text |-> ""]

ModelFinalMessage(answer) ==
  [entity |-> "model", action |-> "final", toolName |-> "", toolCallId |-> NoId,
   isError |-> FALSE, text |-> answer]

\* mutant: the tool result is not linked to its tool call
ToolResultMessage_NoId(toolName, toolCallId, isError, resultText) ==
  [entity |-> "tool_result", action |-> "", toolName |-> toolName,
   toolCallId |-> NoId, isError |-> isError, text |-> resultText]

ToolResultMessage(toolName, toolCallId, isError, resultText) ==
  [entity |-> "tool_result", action |-> "", toolName |-> toolName,
   toolCallId |-> toolCallId, isError |-> isError, text |-> resultText]

\* the synthetic ToolResult of the two catch blocks: no toolCallId
SystemErrorMessage(errorMsg) ==
  ToolResultMessage("system_error", NoId, TRUE, errorMsg)

\* ------------------------------------------------------------------ results
NoResult ==
  [success |-> FALSE, text |-> "", hasSteps |-> FALSE, steps |-> <<>>, reason |-> "none"]

createSuccessResult(output, steps, reason) ==
  [success |-> TRUE, text |-> output, hasSteps |-> TRUE, steps |-> steps, reason |-> reason]

createErrorResult(error, steps, reason) ==
  [success |-> FALSE, text |-> error, hasSteps |-> TRUE, steps |-> steps, reason |-> reason]

\* ------------------------------------------------------- Gateway responses
\* A response: functionCall.name ("" when absent), text ("" when absent) and,
\* for the text, what the checks of parseResponse see in it.
LLMResponse(fc, text, brace, marker, parses, jsonTool) ==
  [fc |-> fc, text |-> text, brace |-> brace, marker |-> marker,
   parses |-> parses, jsonTool |-> jsonTool]

ToolCallAction(name) == [type |-> "tool_call", name |-> name, answer |-> ""]
FinalAnswerAction(answer) == [type |-> "final_answer", name |-> "", answer |-> answer]
ErrorAction == [type |-> "error", name |-> "", answer |-> ""]

\* mutant: the text is looked at before the function call
parseResponse_TextFirst(response) ==
  IF response.text # ""
  THEN IF response.brace /\ response.marker
       THEN IF response.parses /\ response.jsonTool # ""
            THEN ToolCallAction(response.jsonTool)
            ELSE FinalAnswerAction(response.text)
       ELSE FinalAnswerAction(response.text)
  ELSE IF response.fc # "" THEN ToolCallAction(response.fc)
  ELSE ErrorAction

\* mutant: an envelope that is no JSON is an error
parseResponse_ErrorOnBadJson(response) ==
  IF response.fc # "" THEN ToolCallAction(response.fc)
  ELSE IF response.text # ""
       THEN IF response.brace /\ response.marker
            THEN IF response.parses
                 THEN IF response.jsonTool # "" THEN ToolCallAction(response.jsonTool)
                      ELSE FinalAnswerAction(response.text)
                 ELSE ErrorAction
            ELSE FinalAnswerAction(response.text)
       ELSE ErrorAction

parseResponse(response) ==
  IF response.fc # "" THEN ToolCallAction(response.fc)
  ELSE IF response.text # ""
       THEN IF response.brace /\ response.marker
            THEN IF response.parses /\ response.jsonTool # ""
                 THEN ToolCallAction(response.jsonTool)
                 ELSE FinalAnswerAction(response.text)
            ELSE FinalAnswerAction(response.text)
       ELSE ErrorAction

\* the responses the Gateway gives in the runs of Spec: a function call of
\* each name, the text "4", a text that looks like a tool-call envelope and
\* is no JSON, and a response with neither text nor function call
Responses ==
  {LLMResponse(n, "", FALSE, FALSE, FALSE, "") : n \in CallNames}
  \cup {LLMResponse("", "4", FALSE, FALSE, FALSE, ""),
        LLMResponse("", "{bad", TRUE, TRUE, FALSE, ""),
        LLMResponse("", "", FALSE, FALSE, FALSE, "")}

\* ------------------------------------------------------------ tool returns
\* What tool.execute gave.  kind is "throw" (str is err.message), "string"
\* (str is the string), "undefined", "null" or "object".  An object is its own
\* fields, a function from field names to values; a value is written as its
\* JSON literal ("\"x\"" is the string x, "false" the boolean).  cyclic says
\* that the object has, besides these fields, one that refers to the object
\* itself, which JSON.stringify refuses with a TypeError.
ToolReturn(kind, str, fields, cyclic) ==
  [kind |-> kind, str |-> str, fields |-> fields, cyclic |-> cyclic]

NoFields == <<>>

Threw(message) == ToolReturn("throw", message, NoFields, FALSE)

ReturnedString(str) == ToolReturn("string", str, NoFields, FALSE)

ReturnedObject(fields) == ToolReturn("object", "", fields, FALSE)

\* the order in which the fields of an object are written
FieldOrder == <<"success", "result", "error", "message", "imageData", "dataUrl">>

\* `!!value`
Truthy(value) == value \notin {"\"\"", "false", "0", "null"}

\* a value used where a text is expected: a string is its characters
AsText(value) ==
  IF Len(value) >= 2 /\ SubSeq(value, 1, 1) = "\""
  THEN SubSeq(value, 2, Len(value) - 1)
  ELSE value

hasOwnProperty(ret, name) == ret.kind = "object" /\ name \in DOMAIN ret.fields

RECURSIVE JsonMembers(_, _)
JsonMembers(fields, keys) ==
  IF keys = <<>> THEN ""
  ELSE LET member == "  \"" \o Head(keys) \o "\": " \o fields[Head(keys)] IN
       IF Len(keys) = 1 THEN member \o "\n"
       ELSE member \o ",\n" \o JsonMembers(fields, Tail(keys))

UndefinedText == "<undefined>"

\* `JSON.stringify(value, null, 2)` of a value it does not refuse
stringify(ret) ==
  CASE ret.kind = "string" -> "\"" \o ret.str \o "\""
    [] ret.kind = "undefined" -> UndefinedText
    [] ret.kind = "null" -> "null"
    [] OTHER ->
         LET keys == SelectSeq(FieldOrder, LAMBDA k : k \in DOMAIN ret.fields) IN
         IF keys = <<>> THEN "{}" ELSE "{\n" \o JsonMembers(ret.fields, keys) \o "}"

\* the try block of the tool execution is left by a throw: of the tool, or of
\* JSON.stringify
tryThrows(ret) ==
  \/ ret.kind = "throw"
  \/ ret.kind = "object" /\ ret.cyclic

errMessage(ret) ==
  IF ret.kind = "throw" THEN ret.str ELSE "Converting circular structure to JSON"

toolIsError(ret) ==
  \/ tryThrows(ret)
  \/ /\ ret.kind = "object"
     /\ \/ hasOwnProperty(ret, "error") /\ Truthy(ret.fields["error"])
        \/ hasOwnProperty(ret, "success") /\ ret.fields["success"] = "false"

toolResultText(ret) ==
  CASE tryThrows(ret) -> "Error during tool execution: " \o errMessage(ret)
    [] ret.kind = "string" -> ret.str
    [] ret.kind \in {"undefined", "null"} -> stringify(ret)
    [] OTHER ->
         IF hasOwnProperty(ret, "error") /\ Truthy(ret.fields["error"])
         THEN AsText(ret.fields["error"])
         ELSE IF hasOwnProperty(ret, "success") /\ ret.fields["success"] = "false"
              THEN IF hasOwnProperty(ret, "message") /\ Truthy(ret.fields["message"])
                   THEN AsText(ret.fields["message"])
                   ELSE stringify(ret)
              ELSE stringify(ret)

\* toolResultData when the tool result message is built
toolResultData(ret) ==
  IF tryThrows(ret)
  THEN ReturnedObject([k \in {"error"} |-> "\"" \o toolResultText(ret) \o "\""])
  ELSE ret

\* the returns the tools give in the runs of Spec: calc always gives its
\* result, search may also give an empty string, give {error: "x"} or throw
ToolReturnValues(toolName) ==
  IF toolName = "calc"
  THEN {ReturnedObject([k \in {"result"} |-> "4"])}
  ELSE {ReturnedObject([k \in {"result"} |-> "4"]),
        ReturnedString(""),
        ReturnedObject([k \in {"error"} |-> "\"x\""]),
        Threw("boom")}

\* ----------------------------------------------------------- agent registry
HandoffConfig(targetAgentName, trigger, includeToolResults) ==
  [targetAgentName |-> targetAgentName, trigger |-> trigger,
   includeToolResults |-> includeToolResults]

\* a modelName or systemPrompt the config leaves unset
Unset == ""
\* a `tools` the config leaves unset (undefined, not the empty list)
NoTools == {"<undefined>"}

\* maxIterations 0 is an unset maxIterations
AgentConfig(modelName, systemPrompt, tools, maxIterations, handoffs, includeIntermediateStepsOnReturn) ==
  [modelName |-> modelName, systemPrompt |-> systemPrompt,
   tools |-> tools, maxIterations |-> maxIterations, handoffs |-> handoffs,
   includeIntermediateStepsOnReturn |-> includeIntermediateStepsOnReturn]

\* trigger absent ("") counts as llm_tool_call
IsLLMTrigger(h) == h.trigger = "" \/ h.trigger = "llm_tool_call"

HandoffSets ==
  {<<>>,
   <<HandoffConfig("B", "llm_tool_call", {})>>,
   <<HandoffConfig("B", "", {"search"})>>,
   <<HandoffConfig("B", "max_iterations", {})>>,
   <<HandoffConfig("ghost", "llm_tool_call", {}), HandoffConfig("ghost", "max_iterations", {})>>}

TargetConfigs ==
  {AgentConfig("modelB", "promptB", {"search"}, 1, <<>>, FALSE),
   AgentConfig("modelB", "promptB", {"search"}, 0, <<>>, TRUE),
   AgentConfig("modelB", "promptB", {"search"}, 1,
               <<HandoffConfig("A", "llm_tool_call", {})>>, TRUE)}

TargetsB(handoffs) ==
  \E i \in 1..Len(handoffs) : handoffs[i].targetAgentName = "B"

\* the registries of Spec: A is the agent of the top-level run, B a target
Registries ==
  {[n \in AgentNames |->
      IF n = "A" THEN AgentConfig("modelA", "promptA", OrdinaryTools, MaxIter, h, FALSE)
      ELSE b] :
     h \in {hs \in HandoffSets : TargetsB(hs)}, b \in TargetConfigs}
  \cup
  {[n \in AgentNames |->
      IF n = "A" THEN AgentConfig("modelA", "promptA", OrdinaryTools, MaxIter, h, FALSE)
      ELSE AgentConfig("modelB", "promptB", {"search"}, 1, <<>>, FALSE)] :
     h \in {hs \in HandoffSets : ~TargetsB(hs)}}

\* ------------------------------------------------------------------- state
VARIABLES
  registry,   \* ToolRegistry: the registered agents and their configs
  stack,      \* the nested AgentRunner.run calls, the innermost last
  nextId,     \* the next value crypto.randomUUID() gives
  call,       \* one call of a function checked by itself: argument and return
  heap        \* the message arrays of concurrent runs, by reference

vars == <<registry, stack, nextId, call, heap>>

\* what the specifications of the run loop leave alone
side == <<call, heap>>

\* no function call under check, no array allocated
NoCall == [op |-> "none"]
NoHeap == <<>>

NoResponse == LLMResponse("", "", FALSE, FALSE, FALSE, "")

\* One AgentRunner.run call.  pc: "loop" at the loop head, "llm" while
\* llm.call is pending, "tool" while tool.execute is pending, "handoff" while
\* the target's run is pending, "returned" with a result, "threw" when an
\* exception left run().  History of the call, read by the properties only:
\* initialMessages, events (what the call did, in order), response (the last
\* Gateway response) and handoffResult (what the target's run returned).
Frame(agent, config, initialMessages, args) ==
  [agent |-> agent, modelName |-> config.modelName, systemPrompt |-> config.systemPrompt,
   maxIterations |-> config.maxIterations, tools |-> config.tools,
   messages |-> initialMessages, initialMessages |-> initialMessages,
   args |-> args, iteration |-> 0, pc |-> "loop",
   toolName |-> "", toolCallId |-> NoId, trigger |-> "",
   events |-> <<>>, response |-> NoResponse,
   result |-> NoResult, handoffResult |-> NoResult]

Top == stack[Len(stack)]
SetTop(f) == [stack EXCEPT ![Len(stack)] = f]

\* first element of seq that satisfies Test, as a set of at most one element
FirstMatching(seq, Test(_)) ==
  {seq[i] : i \in {j \in 1..Len(seq) :
                     Test(seq[j]) /\ \A k \in 1..(j - 1) : ~Test(seq[k])}}

\* mutant: a handoff tool for every rule with a registered target
HandoffToolNames_AnyTrigger(agent) ==
  LET hs == registry[agent].handoffs IN
  {HandoffToolName(hs[i].targetAgentName) :
     i \in {j \in 1..Len(hs) : hs[j].targetAgentName \in DOMAIN registry}}

\* mutant: a handoff tool for every llm-triggered rule, registered target or not
HandoffToolNames_IncludesUnregistered(agent) ==
  LET hs == registry[agent].handoffs IN
  {HandoffToolName(hs[i].targetAgentName) :
     i \in {j \in 1..Len(hs) : IsLLMTrigger(hs[j])}}

\* the handoff tools run() adds to toolMap: llm-triggered rules whose target
\* is a registered agent
HandoffToolNames(agent) ==
  LET hs == registry[agent].handoffs IN
  {HandoffToolName(hs[i].targetAgentName) :
     i \in {j \in 1..Len(hs) :
              IsLLMTrigger(hs[j]) /\ hs[j].targetAgentName \in DOMAIN registry}}

toolMap(f) == f.tools \cup HandoffToolNames(f.agent)

\* the rule of an llm-triggered handoff tool call
LLMHandoffConfig(agent, name) ==
  LET IsRule(h) == HandoffToolName(h.targetAgentName) = name /\ IsLLMTrigger(h) IN
  FirstMatching(registry[agent].handoffs, IsRule)

\* mutant: the rule is looked up by the other trigger
maxIterHandoffConfig_WrongTrigger(agent) ==
  LET IsRule(h) == h.trigger = "llm_tool_call" IN
  FirstMatching(registry[agent].handoffs, IsRule)

maxIterHandoffConfig(agent) ==
  LET IsRule(h) == h.trigger = "max_iterations" IN
  FirstMatching(registry[agent].handoffs, IsRule)

\* ------------------------------------------------- the steps of the loop body
\* mutant: one iteration too many
LoopContinues_OffByOne(f) == f.iteration <= f.maxIterations

\* mutant: one iteration too few
LoopContinues_StopsEarly(f) == f.iteration + 1 < f.maxIterations

\* the loop condition
LoopContinues(f) == f.iteration < f.maxIterations

\* mutant: the failed call is recorded and the loop tries again
OnGatewayFailure_Retries(f) ==
  [f EXCEPT !.pc = "loop",
            !.messages = Append(@, SystemErrorMessage("LLM call failed")),
            !.iteration = @ + 1,
            !.events = @ \o <<"llm_fail">>]

\* catch of the llm.call try
OnGatewayFailure(f) ==
  LET msgs == Append(f.messages, SystemErrorMessage("LLM call failed")) IN
  [f EXCEPT !.pc = "returned", !.messages = msgs,
            !.events = @ \o <<"llm_fail">>,
            !.result = createErrorResult("LLM call failed", msgs, "error")]

\* mutant: the error is recorded and the loop goes to its next iteration
OnLoopError_Continues(f, event) ==
  [f EXCEPT !.pc = "loop",
            !.messages = Append(@, SystemErrorMessage("Agent loop error")),
            !.iteration = @ + 1,
            !.events = @ \o <<event>>]

\* catch of the try around the processing of the parsed action
OnLoopError(f, event) ==
  LET msgs == Append(f.messages, SystemErrorMessage("Agent loop error")) IN
  [f EXCEPT !.pc = "returned", !.messages = msgs,
            !.events = @ \o <<event>>,
            !.result = createErrorResult("Agent loop error", msgs, "error")]

\* mutant: the final answer is recorded without leaving the loop
OnFinalAnswer_KeepsLooping(f, answer) ==
  [f EXCEPT !.pc = "loop",
            !.messages = Append(@, ModelFinalMessage(answer)),
            !.iteration = @ + 1,
            !.events = @ \o <<"final">>]

\* branch final_answer
OnFinalAnswer(f, answer) ==
  LET msgs == Append(f.messages, ModelFinalMessage(answer)) IN
  [f EXCEPT !.pc = "returned", !.messages = msgs,
            !.events = @ \o <<"final">>,
            !.result = createSuccessResult(answer, msgs, "final_answer")]

\* branch tool_call, up to the lookup in toolMap
OnToolCall(f, toolName, toolCallId) ==
  [f EXCEPT !.messages = Append(@, ModelToolMessage(toolName, toolCallId)),
            !.toolName = toolName, !.toolCallId = toolCallId]

\* history only: what the tool did, as the caller of the tool sees it
ToolEvent(ret) ==
  IF ret.kind = "throw" THEN "tool_throw"
  ELSE IF toolIsError(ret) THEN "tool_failure"
  ELSE "tool_ok"

\* mutant: a failed tool ends the run with an error result
OnToolReturn_FatalOnError(f, ret) ==
  LET msgs == Append(f.messages, ToolResultMessage(f.toolName, f.toolCallId,
                                                   toolIsError(ret), toolResultText(ret))) IN
  IF toolIsError(ret)
  THEN [f EXCEPT !.pc = "returned", !.messages = msgs,
                 !.events = @ \o <<ToolEvent(ret)>>,
                 !.result = createErrorResult(toolResultText(ret), msgs, "error")]
  ELSE [f EXCEPT !.pc = "loop", !.messages = msgs, !.iteration = @ + 1,
                 !.events = @ \o <<ToolEvent(ret)>>]

\* mutant: the tool result takes the place of the tool call in the log
OnToolReturn_ReplacesToolCall(f, ret) ==
  [f EXCEPT !.pc = "loop",
            !.messages = [@ EXCEPT ![Len(@)] = ToolResultMessage(f.toolName, f.toolCallId,
                                                                 toolIsError(ret), toolResultText(ret))],
            !.iteration = @ + 1,
            !.events = @ \o <<ToolEvent(ret)>>]

\* regular tool execution finished with ret: the tool result is pushed and
\* the loop goes to its next iteration
OnToolReturn(f, ret) ==
  [f EXCEPT !.pc = "loop",
            !.messages = Append(@, ToolResultMessage(f.toolName, f.toolCallId,
                                                     toolIsError(ret), toolResultText(ret))),
            !.iteration = @ + 1,
            !.events = @ \o <<ToolEvent(ret)>>]

\* after the loop, no max_iterations handoff
OnMaxIterations(f) ==
  [f EXCEPT !.pc = "returned",
            !.events = @ \o <<"max_iterations">>,
            !.result = createErrorResult("Agent reached maximum iterations",
                                         f.messages, "max_iterations")]

\* ----------------------------------------------------------- executeHandoff
\* mutant: every tool call is kept, whatever its tool
KeptInHandoff_EveryToolCall(message, include) ==
  IF message.entity = "user" THEN TRUE
  ELSE IF message.entity = "model" /\ message.action = "final" THEN TRUE
  ELSE IF message.entity = "model" /\ message.action = "tool" /\ message.toolName # ""
       THEN TRUE
  ELSE IF message.entity = "tool_result"
       THEN ~message.isError /\ message.toolName # "" /\ message.toolName \in include
  ELSE FALSE

\* mutant: only user messages are kept unconditionally
KeptInHandoff_DropsFinal(message, include) ==
  IF message.entity = "user" THEN TRUE
  ELSE IF message.entity = "model" /\ message.action = "tool" /\ message.toolName # ""
       THEN message.toolName \in include
  ELSE IF message.entity = "tool_result"
       THEN ~message.isError /\ message.toolName # "" /\ message.toolName \in include
  ELSE FALSE

KeptInHandoff(message, include) ==
  IF message.entity = "user" THEN TRUE
  ELSE IF message.entity = "model" /\ message.action = "final" THEN TRUE
  ELSE IF message.entity = "model" /\ message.action = "tool" /\ message.toolName # ""
       THEN message.toolName \in include
  ELSE IF message.entity = "tool_result"
       THEN ~message.isError /\ message.toolName # "" /\ message.toolName \in include
  ELSE FALSE

handoffMessages(currentMessages, handoffConfig) ==
  IF handoffConfig.includeToolResults # {}
  THEN LET Keep(m) == KeptInHandoff(m, handoffConfig.includeToolResults) IN
       SelectSeq(currentMessages, Keep)
  ELSE currentMessages

\* the AgentRunnerConfig of a run: what run() reads of its `config`
AgentRunnerConfig(modelName, systemPrompt, tools, maxIterations) ==
  [modelName |-> modelName, systemPrompt |-> systemPrompt, tools |-> tools,
   maxIterations |-> maxIterations]

\* mutant: the model name is the target's, set or not
targetRunnerConfig_NoFallback(targetConfig, defaultModelName, defaultMaxIterations) ==
  AgentRunnerConfig(
    targetConfig.modelName,
    targetConfig.systemPrompt,
    targetConfig.tools,
    IF targetConfig.maxIterations # 0 THEN targetConfig.maxIterations
    ELSE defaultMaxIterations)

\* systemPrompt is the target's prompt with the page context added: the
\* model keeps the prompt it was made from
targetRunnerConfig(targetConfig, defaultModelName, defaultMaxIterations) ==
  AgentRunnerConfig(
    IF targetConfig.modelName # Unset THEN targetConfig.modelName ELSE defaultModelName,
    targetConfig.systemPrompt,
    targetConfig.tools,
    IF targetConfig.maxIterations # 0 THEN targetConfig.maxIterations
    ELSE defaultMaxIterations)

\* `llmToolArgs ?? originalArgs`
NoArgs == "<undefined>"

\* mutant: the run's own arguments are never passed on
targetAgentArgs_IgnoresOriginal(originalArgs, llmToolArgs) == llmToolArgs

targetAgentArgs(originalArgs, llmToolArgs) ==
  IF llmToolArgs # NoArgs THEN llmToolArgs ELSE originalArgs

\* executeHandoff up to the recursive run: f is the delegator's frame, with
\* the messages it passes; the result is the new stack
\* mutant: the target's run goes on from the delegator's iteration count
StartHandoff_KeepsIteration(f, handoffConfig, trigger, originalArgs, llmToolArgs, promptOk) ==
  LET target == handoffConfig.targetAgentName IN
  IF target \notin DOMAIN registry
  THEN SetTop([f EXCEPT !.pc = "returned",
                        !.events = @ \o <<"handoff_unresolved">>,
                        !.result = createErrorResult("Handoff target not found", f.messages, "error")])
  ELSE IF ~promptOk \/ registry[target].tools = NoTools
  THEN IF trigger = "llm_tool_call"
       THEN SetTop(OnLoopError(f, "prompt_throw"))
       ELSE SetTop([f EXCEPT !.pc = "threw", !.events = @ \o <<"prompt_throw">>])
  ELSE Append(SetTop([f EXCEPT !.pc = "handoff", !.trigger = trigger,
                               !.events = @ \o <<"handoff_run">>]),
              [Frame(target,
                     targetRunnerConfig(registry[target], f.modelName, f.maxIterations),
                     handoffMessages(f.messages, handoffConfig),
                     targetAgentArgs(originalArgs, llmToolArgs))
                 EXCEPT !.iteration = f.iteration])

\* the prompt builder may throw, and `targetConfig.tools.map` throws when the
\* target's config has no tools
StartHandoff(f, handoffConfig, trigger, originalArgs, llmToolArgs, promptOk) ==
  LET target == handoffConfig.targetAgentName IN
  IF target \notin DOMAIN registry
  THEN SetTop([f EXCEPT !.pc = "returned",
                        !.events = @ \o <<"handoff_unresolved">>,
                        !.result = createErrorResult("Handoff target not found", f.messages, "error")])
  ELSE IF ~promptOk \/ registry[target].tools = NoTools
  THEN IF trigger = "llm_tool_call"
       THEN SetTop(OnLoopError(f, "prompt_throw"))
       ELSE SetTop([f EXCEPT !.pc = "threw", !.events = @ \o <<"prompt_throw">>])
  ELSE Append(SetTop([f EXCEPT !.pc = "handoff", !.trigger = trigger,
                               !.events = @ \o <<"handoff_run">>]),
              Frame(target,
                    targetRunnerConfig(registry[target], f.modelName, f.maxIterations),
                    handoffMessages(f.messages, handoffConfig),
                    targetAgentArgs(originalArgs, llmToolArgs)))

\* mutant: an unset reason of the target's result stays unset
FinishHandoff_KeepsUnsetReason(currentMessages, handoffResult, targetAgent) ==
  IF registry[targetAgent].includeIntermediateStepsOnReturn
  THEN [handoffResult EXCEPT
          !.hasSteps = TRUE,
          !.steps = currentMessages \o handoffResult.steps]
  ELSE [handoffResult EXCEPT
          !.hasSteps = FALSE,
          !.steps = <<>>]

\* mutant: the flag of the delegating agent is read
FinishHandoff_DelegatorsFlag(currentMessages, handoffResult, targetAgent) ==
  IF registry[stack[Len(stack) - 1].agent].includeIntermediateStepsOnReturn
  THEN [handoffResult EXCEPT
          !.hasSteps = TRUE,
          !.steps = currentMessages \o handoffResult.steps,
          !.reason = IF handoffResult.reason = "none" THEN "handed_off" ELSE @]
  ELSE [handoffResult EXCEPT
          !.hasSteps = FALSE,
          !.steps = <<>>,
          !.reason = IF handoffResult.reason = "none" THEN "handed_off" ELSE @]

\* executeHandoff after the recursive run returned handoffResult
FinishHandoff(currentMessages, handoffResult, targetAgent) ==
  IF registry[targetAgent].includeIntermediateStepsOnReturn
  THEN [handoffResult EXCEPT
          !.hasSteps = TRUE,
          !.steps = currentMessages \o handoffResult.steps,
          !.reason = IF handoffResult.reason = "none" THEN "handed_off" ELSE @]
  ELSE [handoffResult EXCEPT
          !.hasSteps = FALSE,
          !.steps = <<>>,
          !.reason = IF handoffResult.reason = "none" THEN "handed_off" ELSE @]

\* ------------------------------------------------------------- AgentRunner.run
InitialLogs == {<<UserMessage("2+2?")>>}

Init ==
  /\ registry \in Registries
  /\ \E msgs \in InitialLogs :
       stack = <<Frame("A", registry["A"], msgs, "args")>>
  /\ nextId = 1
  /\ call = NoCall
  /\ heap = NoHeap

\* mutant: the target's result is dropped and the delegator's loop goes on
OnHandoffReturn_ContinuesLoop(f, handoffResult, targetAgent) ==
  [f EXCEPT !.pc = "loop",
            !.iteration = @ + 1,
            !.events = @ \o <<"handoff_returned">>,
            !.handoffResult = handoffResult]

\* `return handoffResult` of both handoff sites
OnHandoffReturn(f, handoffResult, targetAgent) ==
  [f EXCEPT !.pc = "returned",
            !.events = @ \o <<"handoff_returned">>,
            !.handoffResult = handoffResult,
            !.result = FinishHandoff(f.messages, handoffResult, targetAgent)]

\* an exception left executeHandoff: the llm-triggered call sits in the try of
\* the loop body, the max_iterations call in none
OnHandoffThrow(f) ==
  IF f.trigger = "llm_tool_call"
  THEN OnLoopError(f, "handoff_threw")
  ELSE [f EXCEPT !.pc = "threw", !.events = @ \o <<"handoff_threw">>]

\* loop head, iteration < maxIterations: the prompt is built and llm.call starts
BuildPrompt ==
  /\ Top.pc = "loop"
  /\ LoopContinues(Top)
  /\ stack' = SetTop([Top EXCEPT !.pc = "llm", !.events = @ \o <<"llm_call">>])
  /\ UNCHANGED <<registry, nextId, side>>

\* enhancePromptWithPageContext throws at the loop head, outside any try
BuildPromptThrows ==
  /\ Top.pc = "loop"
  /\ LoopContinues(Top)
  /\ stack' = SetTop([Top EXCEPT !.pc = "threw", !.events = @ \o <<"prompt_throw">>])
  /\ UNCHANGED <<registry, nextId, side>>

\* llm.call throws
GatewayFails ==
  /\ Top.pc = "llm"
  /\ stack' = SetTop(OnGatewayFailure(Top))
  /\ UNCHANGED <<registry, nextId, side>>

\* the response parses as final_answer
ReplyFinalAnswer ==
  /\ Top.pc = "llm"
  /\ \E response \in Responses :
       LET parsedAction == parseResponse(response) IN
       /\ parsedAction.type = "final_answer"
       /\ stack' = SetTop(OnFinalAnswer([Top EXCEPT !.response = response], parsedAction.answer))
  /\ UNCHANGED <<registry, nextId, side>>

\* the response parses as error: thrown and caught
ReplyUnparsable ==
  /\ Top.pc = "llm"
  /\ \E response \in Responses :
       /\ parseResponse(response).type = "error"
       /\ stack' = SetTop(OnLoopError([Top EXCEPT !.response = response], "parse_error"))
  /\ UNCHANGED <<registry, nextId, side>>

\* tool_call of a name that is not in toolMap: the model message is pushed,
\* then the throw is caught
ReplyUnknownTool ==
  /\ Top.pc = "llm"
  /\ \E response \in Responses :
       LET parsedAction == parseResponse(response) IN
       /\ parsedAction.type = "tool_call"
       /\ parsedAction.name \notin toolMap(Top)
       /\ stack' = SetTop(OnLoopError(OnToolCall([Top EXCEPT !.response = response],
                                                 parsedAction.name, nextId),
                                      "unknown_tool"))
  /\ nextId' = nextId + 1
  /\ UNCHANGED <<registry, side>>

\* mutant: execute is called and not awaited, the loop goes on at once
ReplyToolCall_NotAwaited ==
  /\ Top.pc = "llm"
  /\ \E response \in Responses :
       LET parsedAction == parseResponse(response) IN
       /\ parsedAction.type = "tool_call"
       /\ parsedAction.name \in toolMap(Top)
       /\ parsedAction.name \notin HandoffToolNames(Top.agent)
       /\ stack' = SetTop([OnToolCall([Top EXCEPT !.response = response], parsedAction.name, nextId)
                             EXCEPT !.pc = "loop", !.iteration = @ + 1,
                                    !.events = @ \o <<"tool_exec">>])
  /\ nextId' = nextId + 1
  /\ UNCHANGED <<registry, side>>

\* tool_call of a regular tool: the model message is pushed and execute starts
ReplyToolCall ==
  /\ Top.pc = "llm"
  /\ \E response \in Responses :
       LET parsedAction == parseResponse(response) IN
       /\ parsedAction.type = "tool_call"
       /\ parsedAction.name \in toolMap(Top)
       /\ parsedAction.name \notin HandoffToolNames(Top.agent)
       /\ stack' = SetTop([OnToolCall([Top EXCEPT !.response = response], parsedAction.name, nextId)
                             EXCEPT !.pc = "tool", !.events = @ \o <<"tool_exec">>])
  /\ nextId' = nextId + 1
  /\ UNCHANGED <<registry, side>>

\* tool.execute returns or throws
ToolReturns ==
  /\ Top.pc = "tool"
  /\ \E ret \in ToolReturnValues(Top.toolName) :
       stack' = SetTop(OnToolReturn(Top, ret))
  /\ UNCHANGED <<registry, nextId, side>>

\* tool_call of a handoff tool: the model message is pushed, executeHandoff
\* runs with the model's toolArgs
ReplyHandoffCall ==
  /\ Top.pc = "llm"
  /\ Len(stack) < MaxDepth
  /\ \E response \in Responses, promptOk \in BOOLEAN :
       LET parsedAction == parseResponse(response)
           f == [OnToolCall([Top EXCEPT !.response = response], parsedAction.name, nextId)
                   EXCEPT !.events = @ \o <<"handoff_call">>] IN
       /\ parsedAction.type = "tool_call"
       /\ parsedAction.name \in HandoffToolNames(Top.agent)
       /\ \E handoffConfig \in LLMHandoffConfig(Top.agent, parsedAction.name) :
            stack' = StartHandoff(f, handoffConfig, "llm_tool_call", "toolArgs", "toolArgs",
                                  promptOk)
  /\ nextId' = nextId + 1
  /\ UNCHANGED <<registry, side>>

\* the loop ended and no max_iterations handoff is configured
MaxIterationsReached ==
  /\ Top.pc = "loop"
  /\ ~LoopContinues(Top)
  /\ maxIterHandoffConfig(Top.agent) = {}
  /\ stack' = SetTop(OnMaxIterations(Top))
  /\ UNCHANGED <<registry, nextId, side>>

\* the loop ended and a max_iterations handoff is configured: executeHandoff
\* runs with the run's own args
MaxIterationsHandoff ==
  /\ Top.pc = "loop"
  /\ ~LoopContinues(Top)
  /\ \E handoffConfig \in maxIterHandoffConfig(Top.agent), promptOk \in BOOLEAN :
       /\ handoffConfig.targetAgentName \in DOMAIN registry => Len(stack) < MaxDepth
       /\ stack' = StartHandoff([Top EXCEPT !.events = @ \o <<"max_iterations_handoff">>],
                                handoffConfig, "max_iterations", Top.args, NoArgs, promptOk)
  /\ UNCHANGED <<registry, nextId, side>>

\* the target's run returned its result to executeHandoff
HandoffTargetReturns ==
  /\ Len(stack) > 1
  /\ Top.pc = "returned"
  /\ stack' = Append(SubSeq(stack, 1, Len(stack) - 2),
                     OnHandoffReturn(stack[Len(stack) - 1], Top.result, Top.agent))
  /\ UNCHANGED <<registry, nextId, side>>

\* an exception left the target's run
HandoffTargetThrows ==
  /\ Len(stack) > 1
  /\ Top.pc = "threw"
  /\ stack' = Append(SubSeq(stack, 1, Len(stack) - 2), OnHandoffThrow(stack[Len(stack) - 1]))
  /\ UNCHANGED <<registry, nextId, side>>

Next ==
  \/ BuildPrompt
  \/ BuildPromptThrows
  \/ GatewayFails
  \/ ReplyFinalAnswer
  \/ ReplyUnparsable
  \/ ReplyUnknownTool
  \/ ReplyToolCall
  \/ ToolReturns
  \/ ReplyHandoffCall
  \/ MaxIterationsReached
  \/ MaxIterationsHandoff
  \/ HandoffTargetReturns
  \/ HandoffTargetThrows

Spec == Init /\ [][Next]_vars

\* ------------------------------------------- executeHandoff on drawn inputs
\* SpecHandoff checks executeHandoff for every history the delegator may hold
\* and every configuration of the target; the target's run is cut down to
\* its end: it answers at once, or throws, and its hooks make the result.

\* what an earlier turn left in the log: a question, an answer, or a tool
\* round trip (with the id of the call)
SegmentKinds == {"user", "final", "search_ok", "search_err", "calc_ok"}

LogSegment(kind, id) ==
  CASE kind = "user" -> <<UserMessage("q")>>
    [] kind = "final" -> <<ModelFinalMessage("a")>>
    [] kind = "search_ok" ->
         <<ModelToolMessage("search", id), ToolResultMessage("search", id, FALSE, "{result}")>>
    [] kind = "search_err" ->
         <<ModelToolMessage("search", id), ToolResultMessage("search", id, TRUE, "x")>>
    [] OTHER ->
         <<ModelToolMessage("calc", id), ToolResultMessage("calc", id, FALSE, "{result}")>>

RECURSIVE LogOf(_)
LogOf(kinds) ==
  IF kinds = <<>> THEN <<>>
  ELSE LogOf(SubSeq(kinds, 1, Len(kinds) - 1)) \o LogSegment(kinds[Len(kinds)], Len(kinds))

HandoffLogs ==
  {LogOf(kinds) : kinds \in UNION {[1..n -> SegmentKinds] : n \in 0..MaxSegs}}

\* the one rule of the delegator: either trigger, with and without a filter
HandoffRules ==
  {HandoffConfig("B", trigger, include) :
     trigger \in {"llm_tool_call", "max_iterations"}, include \in {{}, {"search"}}}

\* the target: everything set, or model, prompt and budget unset, or no tools
TargetDefinitions ==
  {AgentConfig("modelB", "promptB", {"search"}, 1, <<>>, FALSE),
   AgentConfig("modelB", "promptB", {"search"}, 1, <<>>, TRUE),
   AgentConfig(Unset, Unset, {"search"}, 0, <<>>, TRUE),
   AgentConfig("modelB", "promptB", NoTools, 1, <<>>, FALSE)}

\* a delegator with a max_iterations rule gets the budget 0, and so meets
\* the rule at once
HandoffRegistries ==
  {[n \in AgentNames |->
      IF n = "A"
      THEN AgentConfig("modelA", "promptA", OrdinaryTools,
                       IF IsLLMTrigger(h) THEN MaxIter ELSE 0, <<h>>, flag)
      ELSE b] :
     h \in HandoffRules, flag \in BOOLEAN, b \in TargetDefinitions}

InitHandoff ==
  /\ registry \in HandoffRegistries
  /\ \E msgs \in HandoffLogs : stack = <<Frame("A", registry["A"], msgs, "args")>>
  /\ nextId = MaxSegs + 1
  /\ call = NoCall
  /\ heap = NoHeap

\* a createSuccessResult / createErrorResult hook of the target's own config:
\* it need not put the steps or the reason into the result
customCreateResult(success, text, steps, reason, keepsSteps, keepsReason) ==
  [success |-> success, text |-> text, hasSteps |-> keepsSteps,
   steps |-> IF keepsSteps THEN steps ELSE <<>>,
   reason |-> IF keepsReason THEN reason ELSE "none"]

\* the delegator's first iteration
DelegatorCallsGateway ==
  /\ Len(stack) = 1
  /\ BuildPrompt

\* the target's run ends with a final answer at its first Gateway call
TargetRunEnds ==
  /\ Len(stack) > 1
  /\ Top.pc = "loop"
  /\ \E keepsSteps \in BOOLEAN, keepsReason \in BOOLEAN :
       LET msgs == Append(Top.messages, ModelFinalMessage("out")) IN
       stack' = SetTop([Top EXCEPT !.pc = "returned", !.messages = msgs,
                                   !.events = <<"llm_call", "final">>,
                                   !.result = customCreateResult(TRUE, "out", msgs, "final_answer",
                                                                 keepsSteps, keepsReason)])
  /\ UNCHANGED <<registry, nextId, side>>

\* an exception leaves the target's run
TargetRunThrows ==
  /\ Len(stack) > 1
  /\ Top.pc = "loop"
  /\ stack' = SetTop([Top EXCEPT !.pc = "threw", !.events = <<"prompt_throw">>])
  /\ UNCHANGED <<registry, nextId, side>>

NextHandoff ==
  \/ DelegatorCallsGateway
  \/ ReplyHandoffCall
  \/ MaxIterationsHandoff
  \/ TargetRunEnds
  \/ TargetRunThrows
  \/ HandoffTargetReturns
  \/ HandoffTargetThrows

SpecHandoff == InitHandoff /\ [][NextHandoff]_vars

\* -------------------------------------------- parseResponse on drawn replies
\* the values of the three variables of the run loop while a function is
\* checked by itself
NoRegistry == <<>>

Idle ==
  /\ registry = NoRegistry
  /\ stack = <<>>
  /\ nextId = 1

\* every reply: any function call or none, no text or a text, and for a text
\* what parseResponse can find in it.  A text that holds a tool call as JSON
\* is a JSON object; it holds the marker only when written without spaces.
AllResponses ==
  {r \in {LLMResponse(fc, text, brace, marker, parses, jsonTool) :
             fc \in CallNames \cup {""}, text \in {"", "t"},
             brace \in BOOLEAN, marker \in BOOLEAN, parses \in BOOLEAN,
             jsonTool \in {"", "calc"}} :
     /\ r.text = "" => (~r.brace /\ ~r.marker /\ ~r.parses)
     /\ r.jsonTool # "" => (r.parses /\ r.brace)}

NoAction == [type |-> "none", name |-> "", answer |-> ""]

InitParse ==
  /\ Idle
  /\ heap = NoHeap
  /\ \E response \in AllResponses :
       call = [op |-> "parseResponse", pc |-> "called", arg |-> response, ret |-> NoAction]

\* `llm.parseResponse(llmResponse)`
ParseReply ==
  /\ call.op = "parseResponse"
  /\ call.pc = "called"
  /\ call' = [call EXCEPT !.pc = "returned", !.ret = parseResponse(call.arg)]
  /\ UNCHANGED <<registry, stack, nextId, heap>>

NextParse == ParseReply

SpecParse == InitParse /\ [][NextParse]_vars

\* ------------------------------------------ tool execution on drawn returns
\* the values the fields of a returned object take
FieldValues ==
  [error |-> {"\"\"", "\"x\""}, success |-> {"true", "false"},
   message |-> {"\"m\""}, imageData |-> {"\"iVBOR\""}]

\* the objects that have some of the fields of values, each with one of its values
FieldsOver(values) ==
  {fields \in UNION {[names -> UNION {values[k] : k \in DOMAIN values}] :
                       names \in SUBSET (DOMAIN values)} :
     \A k \in DOMAIN fields : fields[k] \in values[k]}

ObjectFields == FieldsOver(FieldValues)

AllToolReturns ==
  {Threw("boom"), ReturnedString(""), ReturnedString("ok"),
   ToolReturn("undefined", "", NoFields, FALSE), ToolReturn("null", "", NoFields, FALSE)}
  \cup {ToolReturn("object", "", fields, cyclic) :
          fields \in ObjectFields, cyclic \in BOOLEAN}

NoData == ToolReturn("none", "", NoFields, FALSE)

\* the tool result message, with the error and resultData it carries
toolResultMessage(ret) ==
  LET data == toolResultData(ret) IN
  [resultText |-> toolResultText(ret),
   isError |-> toolIsError(ret),
   error |-> IF toolIsError(ret) THEN toolResultText(ret) ELSE UndefinedText,
   resultData |-> IF data.kind \in {"undefined", "null"} \/ data = ReturnedString("")
                  THEN NoData ELSE data]

NoMessage == [resultText |-> "", isError |-> FALSE, error |-> "", resultData |-> NoData]

InitTool ==
  /\ Idle
  /\ heap = NoHeap
  /\ \E ret \in AllToolReturns :
       call = [op |-> "execute", pc |-> "called", arg |-> ret, ret |-> NoMessage]

\* regular tool execution, from the call of execute to the message pushed
ExecuteTool ==
  /\ call.op = "execute"
  /\ call.pc = "called"
  /\ call' = [call EXCEPT !.pc = "returned", !.ret = toolResultMessage(call.arg)]
  /\ UNCHANGED <<registry, stack, nextId, heap>>

NextTool == ExecuteTool

SpecTool == InitTool /\ [][NextTool]_vars

\* ------------------------------------------------ message arrays of the runs
\* Arrays are kept by reference: heap[ref] is the content of the array ref,
\* the caller's initial message array is heap[1].  The runs of call.runs are
\* the runs in progress or ended; a run keeps the reference of its `messages`,
\* and as history the content it started from (start), the messages it pushed
\* (own), the run that handed off to it (parent, 0 for a run of the caller)
\* and the array of its result (steps, 0 when none).
MaxRuns == 3
MaxPush == 1

CallerArray == 1

\* mutant: the array itself is used, not a copy
spread_SameArray(h, ref) ==
  [heap |-> h, ref |-> ref]

\* `[...array]`: a new array with the same elements
spread(h, ref) ==
  [heap |-> Append(h, h[ref]), ref |-> Len(h) + 1]

\* `currentMessages.filter(...)` or `[...currentMessages]`: the array handed off
handoffArray(h, ref, handoffConfig) ==
  IF handoffConfig.includeToolResults # {}
  THEN [heap |-> Append(h, handoffMessages(h[ref], handoffConfig)), ref |-> Len(h) + 1]
  ELSE spread(h, ref)

RunOf(messages, start, parent) ==
  [messages |-> messages, start |-> start, own |-> <<>>, parent |-> parent,
   pc |-> "running", steps |-> 0]

InitOwnership ==
  /\ Idle
  /\ \E initialMessages \in {<<>>, <<UserMessage("q")>>} :
       /\ heap = <<initialMessages>>
       /\ call = [op |-> "runs", initial |-> initialMessages, runs |-> <<>>]

\* the toolCallId of the n-th message of run r: no two messages share one
messageId(r, n) == (r - 1) * MaxPush + n

\* the tool called by the n-th message of a run
toolNameOf(n) == IF n % 2 = 1 THEN "search" ELSE "calc"

\* the caller starts a run on its array: `let messages = [...initialMessages]`
StartRun ==
  /\ call.op = "runs"
  /\ Len(call.runs) < MaxRuns
  /\ LET copied == spread(heap, CallerArray) IN
     /\ heap' = copied.heap
     /\ call' = [call EXCEPT !.runs = Append(@, RunOf(copied.ref, heap[CallerArray], 0))]
  /\ UNCHANGED <<registry, stack, nextId>>

\* `messages.push(...)` of a run in its loop
PushMessage ==
  /\ call.op = "runs"
  /\ \E r \in 1..Len(call.runs) :
       LET n == Len(call.runs[r].own) + 1
           message == ModelToolMessage(toolNameOf(n), messageId(r, n)) IN
       /\ call.runs[r].pc = "running"
       /\ Len(call.runs[r].own) < MaxPush
       /\ heap' = [heap EXCEPT ![call.runs[r].messages] = Append(@, message)]
       /\ call' = [call EXCEPT !.runs[r].own = Append(@, message)]
  /\ UNCHANGED <<registry, stack, nextId>>

\* executeHandoff up to the start of the target's run, which copies the array
\* it is given; the delegator waits
HandoffStarts ==
  /\ call.op = "runs"
  /\ Len(call.runs) < MaxRuns
  /\ \E r \in 1..Len(call.runs), include \in {{}, {"calc"}} :
       LET handed == handoffArray(heap, call.runs[r].messages,
                                  HandoffConfig("B", "llm_tool_call", include))
           copied == spread(handed.heap, handed.ref) IN
       /\ call.runs[r].pc = "running"
       /\ heap' = copied.heap
       /\ call' = [call EXCEPT !.runs = Append([@ EXCEPT ![r].pc = "handoff"],
                                               RunOf(copied.ref, handed.heap[handed.ref], r))]
  /\ UNCHANGED <<registry, stack, nextId>>

\* a run returns its result, made of its messages; a delegator waiting for it
\* returns with the combined steps, a new array, or without steps
RunReturns ==
  /\ call.op = "runs"
  /\ \E r \in 1..Len(call.runs), includeIntermediateStepsOnReturn \in BOOLEAN :
       LET run == call.runs[r]
           ended == [call.runs EXCEPT ![r].pc = "returned", ![r].steps = run.messages] IN
       /\ run.pc = "running"
       /\ IF run.parent = 0
          THEN /\ call' = [call EXCEPT !.runs = ended]
               /\ heap' = heap
          ELSE IF includeIntermediateStepsOnReturn
          THEN /\ heap' = Append(heap, heap[call.runs[run.parent].messages] \o heap[run.messages])
               /\ call' = [call EXCEPT !.runs = [ended EXCEPT ![run.parent].pc = "returned",
                                                              ![run.parent].steps = Len(heap) + 1]]
          ELSE /\ heap' = heap
               /\ call' = [call EXCEPT !.runs = [ended EXCEPT ![run.parent].pc = "returned"]]
  /\ UNCHANGED <<registry, stack, nextId>>

NextOwnership ==
  \/ StartRun
  \/ PushMessage
  \/ HandoffStarts
  \/ RunReturns

SpecOwnership == InitOwnership /\ [][NextOwnership]_vars

\* =================================================================== properties
Frames == {stack[i] : i \in 1..Len(stack)}

Last(seq) == seq[Len(seq)]

Count(seq, tags) == Cardinality({i \in 1..Len(seq) : seq[i] \in tags})

Has(seq, tags) == \E i \in 1..Len(seq) : seq[i] \in tags

LastIs(seq, tags) == seq # <<>> /\ Last(seq) \in tags

GatewayCalls(f) == Count(f.events, {"llm_call"})

ToolExecutions(f) == Count(f.events, {"tool_exec"})

ToolFailureEvents == {"tool_throw", "tool_failure"}

ToolReturnEvents == {"tool_ok", "tool_throw", "tool_failure"}

IsModelTool(m) == m.entity = "model" /\ m.action = "tool"

IsModelFinal(m) == m.entity = "model" /\ m.action = "final"

IsToolResult(m) == m.entity = "tool_result"

\* the messages the run appended to its initial messages
Appended(f) == SubSeq(f.messages, Len(f.initialMessages) + 1, Len(f.messages))

HasMaxIterationsRule(agent) ==
  \E i \in 1..Len(registry[agent].handoffs) :
    registry[agent].handoffs[i].trigger = "max_iterations"

\* ----------------------------------------------------------------------- C1
\* C1 (as claimed): in the message log of every returned result every
\* Model.Tool message is immediately followed by a ToolResult with the same
\* toolCallId, and no other ToolResult of the log carries that id.
ToolCallsPaired(log) ==
  \A i \in 1..Len(log) :
    IsModelTool(log[i]) =>
      /\ i < Len(log)
      /\ IsToolResult(log[i + 1])
      /\ log[i + 1].toolCallId = log[i].toolCallId
      /\ Cardinality({j \in 1..Len(log) :
                        IsToolResult(log[j]) /\ log[j].toolCallId = log[i].toolCallId}) = 1

C1_ToolCallsPaired ==
  \A f \in Frames :
    (f.pc = "returned" /\ f.result.hasSteps) => ToolCallsPaired(f.result.steps)

\* ----------------------------------------------------------------------- C2
\* C2: a run never makes more Gateway calls than its maxIterations, and its
\* iteration counter never passes maxIterations.
C2_IterationsBounded ==
  \A f \in Frames :
    /\ GatewayCalls(f) <= f.maxIterations
    /\ f.iteration <= f.maxIterations

\* a run that used its whole budget of at least two Gateway calls and returned
C2_Witness ==
  \E f \in Frames :
    f.pc = "returned" /\ f.maxIterations >= 2 /\ GatewayCalls(f) = f.maxIterations

\* ----------------------------------------------------------------------- C3
\* C3: right after a tool threw or returned a failure value the run is back at
\* the loop head with no result, the failure recorded as the last message, a
\* ToolResult with isError and the id of the call; and a returned run in which
\* nothing but tools failed ended by final answer, max-iterations or handoff.
OnlyToolFailures(f) ==
  ~Has(f.events, {"llm_fail", "parse_error", "unknown_tool", "prompt_throw",
                  "handoff_unresolved", "handoff_threw"})

C4_GatewayFailureEndsRun ==
  \A f \in Frames :
    Has(f.events, {"llm_fail"}) =>
      /\ Count(f.events, {"llm_fail"}) = 1
      /\ Last(f.events) = "llm_fail"
      /\ f.events[Len(f.events) - 1] = "llm_call"
      /\ f.pc = "returned"
      /\ ~f.result.success
      /\ f.result.reason = "error"
      /\ f.result.steps = f.messages
      /\ Len(Appended(f)) = 2 * ToolExecutions(f) + 1
      /\ Last(f.messages) = SystemErrorMessage("LLM call failed")
      /\ Count([i \in 1..Len(Appended(f)) |-> Appended(f)[i].toolName], {"system_error"}) = 1

\* the Gateway call of a later iteration failed, after a tool round trip
C4_Witness ==
  \E f \in Frames :
    LastIs(f.events, {"llm_fail"}) /\ ToolExecutions(f) >= 1

\* ----------------------------------------------------------------------- C5
\* C5 (as claimed): no exception ever leaves AgentRunner.run.
C5_NoEscapingException ==
  \A f \in Frames : f.pc # "threw"

\* ----------------------------------------------------------------------- C6
\* C6: when the last Gateway response is a final answer (no function call, a
\* text that does not parse as a tool-call envelope) the run has returned
\* success with reason final_answer and the text as output, having appended
\* one Model.Final with that text as its last message; after one Gateway call
\* the log is the initial messages plus that Model.Final.
IsFinalAnswerResponse(response) ==
  /\ response.fc = ""
  /\ response.text # ""
  /\ ~(response.brace /\ response.marker /\ response.parses /\ response.jsonTool # "")

C6_FinalAnswerEndsRun ==
  \A f \in Frames :
    IsFinalAnswerResponse(f.response) =>
      /\ f.pc = "returned"
      /\ Last(f.events) = "final"
      /\ f.result.success
      /\ f.result.reason = "final_answer"
      /\ f.result.text = f.response.text
      /\ f.result.steps = f.messages
      /\ Last(f.messages) = ModelFinalMessage(f.response.text)
      /\ Cardinality({i \in 1..Len(Appended(f)) : IsModelFinal(Appended(f)[i])}) = 1
      /\ GatewayCalls(f) = 1 =>
           f.messages = Append(f.initialMessages, ModelFinalMessage(f.response.text))

\* Scenario A: the first call answers "4"; the log is the question and the answer
C6_Witness ==
  \E f \in Frames :
    /\ f.pc = "returned"
    /\ GatewayCalls(f) = 1
    /\ f.result.success
    /\ f.result.text = "4"
    /\ f.messages = <<UserMessage("2+2?"), ModelFinalMessage("4")>>

\* ----------------------------------------------------------------------- C7
\* C7: a run that ended with a final answer after k+1 Gateway calls executed
\* k tools, each once (k < maxIterations), and its log is its initial
\* messages, then k pairs of a Model.Tool and the ToolResult of the same tool
\* with the same toolCallId, no id used by two pairs, then one Model.Final.
C7_ToolRoundTrips ==
  \A f \in Frames :
    (f.pc = "returned" /\ LastIs(f.events, {"final"})) =>
      LET k == GatewayCalls(f) - 1
          n == Len(f.initialMessages)
          log == f.messages IN
      /\ k < f.maxIterations
      /\ ToolExecutions(f) = k
      /\ Count(f.events, ToolReturnEvents) = k
      /\ Len(log) = n + 2 * k + 1
      /\ SubSeq(log, 1, n) = f.initialMessages
      /\ \A j \in 1..k :
           /\ IsModelTool(log[n + 2 * j - 1])
           /\ IsToolResult(log[n + 2 * j])
           /\ log[n + 2 * j - 1].toolCallId # NoId
           /\ log[n + 2 * j].toolCallId = log[n + 2 * j - 1].toolCallId
           /\ log[n + 2 * j].toolName = log[n + 2 * j - 1].toolName
           /\ \A l \in 1..k : l # j => log[n + 2 * l - 1].toolCallId # log[n + 2 * j - 1].toolCallId
      /\ IsModelFinal(log[n + 2 * k + 1])

\* Scenario B: one tool round trip, then the answer; a log of length 4
C7_Witness ==
  \E f \in Frames :
    /\ f.pc = "returned"
    /\ LastIs(f.events, {"final"})
    /\ GatewayCalls(f) = 2
    /\ ToolExecutions(f) = 1
    /\ Len(f.messages) = 4
    /\ ~f.messages[3].isError

\* ----------------------------------------------------------------------- C8
\* C8: a returned run of an agent without max_iterations rule, in which every
\* Gateway call was answered by a regular tool call, has status
\* max_iterations after exactly maxIterations Gateway calls and maxIterations
\* tool executions; and no run gets that status of its own at another count.
OnlyToolCallReplies(f) ==
  \A i \in 1..Len(f.events) :
    f.events[i] \in {"llm_call", "tool_exec", "max_iterations"} \cup ToolReturnEvents

FirstMaxIterationsTarget(agent) ==
  LET hs == registry[agent].handoffs
      i == CHOOSE j \in 1..Len(hs) :
             /\ hs[j].trigger = "max_iterations"
             /\ \A l \in 1..(j - 1) : hs[l].trigger # "max_iterations" IN
  hs[i].targetAgentName

C9_MaxIterationsHandoff ==
  \A i \in 1..Len(stack) :
    LET f == stack[i] IN
    /\ Has(f.events, {"max_iterations"}) => ~HasMaxIterationsRule(f.agent)
    /\ (HasMaxIterationsRule(f.agent) /\ f.iteration >= f.maxIterations /\ f.pc # "loop") =>
         /\ Count(f.events, {"max_iterations_handoff"}) = 1
         /\ \E p \in 1..(Len(f.events) - 1) :
              /\ f.events[p] = "max_iterations_handoff"
              /\ f.events[p + 1] \in {"handoff_run", "handoff_unresolved", "prompt_throw"}
              /\ (f.events[p + 1] = "handoff_unresolved") <=>
                   (FirstMaxIterationsTarget(f.agent) \notin AgentNames)
         /\ f.pc = "handoff" =>
              /\ i < Len(stack)
              /\ stack[i + 1].agent = FirstMaxIterationsTarget(f.agent)

\* the budget is used up and the run of the rule's target B has started
C9_Witness ==
  \E i \in 1..(Len(stack) - 1) :
    /\ stack[i].pc = "handoff"
    /\ stack[i].trigger = "max_iterations"
    /\ stack[i].iteration = stack[i].maxIterations
    /\ stack[i + 1].agent = "B"

C11_TargetStartsAtZero ==
  \A i \in 2..Len(stack) :
    LET d == stack[i - 1]
        t == stack[i]
        cfg == registry[t.agent] IN
    /\ d.pc = "handoff"
    /\ t.maxIterations = IF cfg.maxIterations # 0 THEN cfg.maxIterations ELSE d.maxIterations
    /\ t.events = <<>> => (t.iteration = 0 /\ t.pc = "loop")
    /\ t.iteration = Count(t.events, ToolReturnEvents)
    /\ GatewayCalls(t) <= t.maxIterations

\* a target called by the model at the delegator's second iteration made the
\* two Gateway calls of its budget
C11_Witness ==
  \E i \in 2..Len(stack) :
    /\ stack[i - 1].trigger = "llm_tool_call"
    /\ stack[i - 1].iteration = 1
    /\ stack[i].maxIterations = 2
    /\ GatewayCalls(stack[i]) = 2
    /\ stack[i].iteration = 2

\* ------------------------------------------------------- handoffs, C12..C18
\* the rule by which the delegator d handed off to the run of t.agent
RuleUsed(d, targetAgent) ==
  LET hs == registry[d.agent].handoffs
      Fits(h) == /\ h.targetAgentName = targetAgent
                 /\ IF d.trigger = "llm_tool_call" THEN IsLLMTrigger(h)
                    ELSE h.trigger = d.trigger
      i == CHOOSE j \in 1..Len(hs) : Fits(hs[j]) /\ \A l \in 1..(j - 1) : ~Fits(hs[l]) IN
  hs[i]

\* the agent whose run the delegator d waited for
HandoffTarget(d) ==
  IF d.trigger = "llm_tool_call"
  THEN CHOOSE t \in AgentNames : HandoffToolName(t) = d.toolName
  ELSE FirstMaxIterationsTarget(d.agent)

IsUserOrFinal(m) == m.entity = "user" \/ IsModelFinal(m)

RECURSIVE IsSubsequence(_, _)
IsSubsequence(sub, seq) ==
  IF sub = <<>> THEN TRUE
  ELSE IF seq = <<>> THEN FALSE
  ELSE IF Head(sub) = Head(seq) THEN IsSubsequence(Tail(sub), Tail(seq))
  ELSE IsSubsequence(sub, Tail(seq))

\* ---------------------------------------------------------------------- C12
\* C12: once the target's run has returned, the delegator's result has the
\* target's success flag and output, and as reason handed_off when the
\* target's result has none, else the target's reason.
C12_ResultIsTargets ==
  \A f \in Frames :
    Has(f.events, {"handoff_returned"}) =>
      /\ f.pc = "returned"
      /\ f.result.success = f.handoffResult.success
      /\ f.result.text = f.handoffResult.text
      /\ f.result.reason = IF f.handoffResult.reason = "none" THEN "handed_off"
                           ELSE f.handoffResult.reason

\* the target's hook left the reason out and the delegator returned handed_off
C12_Witness ==
  \E f \in Frames :
    /\ Has(f.events, {"handoff_returned"})
    /\ f.handoffResult.reason = "none"
    /\ f.handoffResult.success
    /\ f.result.reason = "handed_off"
    /\ f.result.text = "out"

\* ---------------------------------------------------------------------- C13
\* C13: when the rule of a handoff has a non-empty includeToolResults S, the
\* messages the target's run starts with hold no Model.Tool and no ToolResult
\* of a tool outside S.
C13_OnlyIncludedTools ==
  \A i \in 2..Len(stack) :
    LET S == RuleUsed(stack[i - 1], stack[i].agent).includeToolResults
        log == stack[i].initialMessages IN
    S # {} =>
      \A j \in 1..Len(log) :
        (IsModelTool(log[j]) \/ IsToolResult(log[j])) => log[j].toolName \in S

\* a log with a calc round trip and a search round trip went through the
\* filter {"search"}: the search call is transferred, the calc call is not
C13_Witness ==
  \E i \in 2..Len(stack) :
    LET d == stack[i - 1]
        log == stack[i].initialMessages IN
    /\ RuleUsed(d, stack[i].agent).includeToolResults = {"search"}
    /\ \E j \in 1..Len(d.messages) : IsToolResult(d.messages[j]) /\ d.messages[j].toolName = "calc"
    /\ \E j \in 1..Len(log) : IsToolResult(log[j]) /\ log[j].toolName = "search"
    /\ Len(log) < Len(d.messages)

\* ---------------------------------------------------------------------- C14
\* C14: the messages the target's run starts with are a subsequence of the
\* delegator's log, and hold all its User and Model.Final messages, in their
\* order, with or without includeToolResults.
C14_KeepsUserAndFinal ==
  \A i \in 2..Len(stack) :
    LET d == stack[i - 1]
        log == stack[i].initialMessages IN
    /\ IsSubsequence(log, d.messages)
    /\ SelectSeq(log, IsUserOrFinal) = SelectSeq(d.messages, IsUserOrFinal)

\* the filter dropped a tool round trip that stood between a question and an
\* answer, and kept both
C14_Witness ==
  \E i \in 2..Len(stack) :
    LET d == stack[i - 1]
        log == stack[i].initialMessages IN
    /\ RuleUsed(d, stack[i].agent).includeToolResults # {}
    /\ Len(d.messages) >= 4
    /\ d.messages[1].entity = "user"
    /\ IsModelTool(d.messages[2])
    /\ IsModelFinal(d.messages[4])
    /\ Len(log) >= 2
    /\ log[1].entity = "user"
    /\ IsModelFinal(log[2])

\* ---------------------------------------------------------------------- C15
\* C15 (as claimed): every tool call of the delegator's log whose tool the
\* rule allows (any tool without includeToolResults) is transferred with its
\* ToolResult, failed or not, and the transferred messages hold no Model.Tool
\* without its ToolResult and no ToolResult without its Model.Tool.
HasToolResultOf(log, modelTool) ==
  \E j \in 1..Len(log) : IsToolResult(log[j]) /\ log[j].toolCallId = modelTool.toolCallId

HasModelToolOf(log, toolResult) ==
  \E j \in 1..Len(log) : IsModelTool(log[j]) /\ log[j].toolCallId = toolResult.toolCallId

C15_PairsKept ==
  \A i \in 2..Len(stack) :
    LET d == stack[i - 1]
        S == RuleUsed(d, stack[i].agent).includeToolResults
        log == stack[i].initialMessages IN
    /\ \A j \in 1..Len(d.messages) :
         (IsModelTool(d.messages[j]) /\ HasToolResultOf(d.messages, d.messages[j])
            /\ (S = {} \/ d.messages[j].toolName \in S)) =>
           \E k \in 1..(Len(log) - 1) :
             /\ log[k] = d.messages[j]
             /\ IsToolResult(log[k + 1])
             /\ log[k + 1].toolCallId = log[k].toolCallId
    /\ \A k \in 1..Len(log) :
         /\ IsModelTool(log[k]) => HasToolResultOf(log, log[k])
         /\ IsToolResult(log[k]) => HasModelToolOf(log, log[k])

\* ---------------------------------------------------------------------- C16
\* C16 (as claimed): the result of a handed-off run carries the target's
\* message log alone when the target's includeIntermediateStepsOnReturn is
\* off, and the delegator's history followed by the target's when it is on.
C16_TargetLogOrConcatenation ==
  \A f \in Frames :
    Has(f.events, {"handoff_returned"}) =>
      /\ f.result.hasSteps
      /\ f.result.steps =
           IF registry[HandoffTarget(f)].includeIntermediateStepsOnReturn
           THEN f.messages \o f.handoffResult.steps
           ELSE f.handoffResult.steps

\* C16 (amended): the result of a handed-off run carries no message log when
\* the target's includeIntermediateStepsOnReturn is off, and the delegator's
\* history followed by the steps of the target's result when it is on; the
\* delegator's flag has no part in it.
C16_TargetFlagDecides ==
  \A f \in Frames :
    Has(f.events, {"handoff_returned"}) =>
      LET include == registry[HandoffTarget(f)].includeIntermediateStepsOnReturn IN
      /\ f.result.hasSteps = include
      /\ f.result.steps = IF include THEN f.messages \o f.handoffResult.steps ELSE <<>>

\* the delegator's flag is on, the target's is off, the target's result came
\* with its steps, and the result returned has none
C16_Witness ==
  \E f \in Frames :
    /\ Has(f.events, {"handoff_returned"})
    /\ registry[f.agent].includeIntermediateStepsOnReturn
    /\ ~registry[HandoffTarget(f)].includeIntermediateStepsOnReturn
    /\ f.handoffResult.hasSteps
    /\ f.handoffResult.steps # <<>>
    /\ ~f.result.hasSteps

\* ---------------------------------------------------------------------- C17
\* C17 (as claimed): the run of a handoff target has the target's model,
\* system prompt, tool set and iteration budget where the target sets them,
\* and the delegator's where it does not.
C17_EachFallsBack ==
  \A i \in 2..Len(stack) :
    LET d == stack[i - 1]
        t == stack[i]
        cfg == registry[t.agent] IN
    /\ t.modelName = IF cfg.modelName # Unset THEN cfg.modelName ELSE d.modelName
    /\ t.systemPrompt = IF cfg.systemPrompt # Unset THEN cfg.systemPrompt ELSE d.systemPrompt
    /\ t.tools = IF cfg.tools # NoTools THEN cfg.tools ELSE d.tools
    /\ t.maxIterations = IF cfg.maxIterations # 0 THEN cfg.maxIterations ELSE d.maxIterations

\* C17 (amended): the run of a handoff target has the target's model and
\* iteration budget where the target sets them and the delegator's where it
\* does not; its system prompt and its tool set are the target's own, set or
\* not, and no run starts for a target without tool set.
C17_ModelAndBudgetFallBack ==
  \A i \in 2..Len(stack) :
    LET d == stack[i - 1]
        t == stack[i]
        cfg == registry[t.agent] IN
    /\ t.modelName = IF cfg.modelName # Unset THEN cfg.modelName ELSE d.modelName
    /\ t.maxIterations = IF cfg.maxIterations # 0 THEN cfg.maxIterations ELSE d.maxIterations
    /\ t.systemPrompt = cfg.systemPrompt
    /\ t.tools = cfg.tools
    /\ cfg.tools # NoTools

\* a target that sets neither model nor prompt nor budget runs with the
\* delegator's model and budget and without prompt
C17_Witness ==
  \E i \in 2..Len(stack) :
    /\ registry[stack[i].agent].modelName = Unset
    /\ registry[stack[i].agent].maxIterations = 0
    /\ stack[i].modelName = "modelA"
    /\ stack[i].maxIterations = MaxIter
    /\ stack[i].systemPrompt = Unset

\* ---------------------------------------------------------------------- C18
\* C18: the run of a handoff target gets the arguments of the model's tool
\* call when the model called the handoff tool, and the arguments of the
\* delegator's own run when the delegator ran out of iterations.
C18_TargetArguments ==
  \A i \in 2..Len(stack) :
    LET d == stack[i - 1]
        t == stack[i] IN
    /\ d.trigger \in {"llm_tool_call", "max_iterations"}
    /\ d.trigger = "llm_tool_call" => t.args = "toolArgs"
    /\ d.trigger = "max_iterations" => t.args = d.args

\* the top-level run used up its budget and its target runs with its "args"
C18_Witness ==
  \E i \in 2..Len(stack) :
    /\ stack[i - 1].trigger = "max_iterations"
    /\ stack[i - 1].args = "args"
    /\ stack[i].args = "args"
    /\ stack[i].pc = "llm"

\* ---------------------------------------------------------------------- C19
\* C19: when the reply to a Gateway call is unparsable or calls a tool that
\* is neither a tool of the run nor one of its handoff tools, the run has
\* returned an error result in that iteration: the reply is the last thing
\* it did, no tool ran for it and no Gateway call followed.  (f.response is
\* the reply to the last Gateway call that did not fail.)
IsBadReply(f) ==
  LET parsedAction == parseResponse(f.response) IN
  \/ parsedAction.type = "error"
  \/ parsedAction.type = "tool_call" /\ parsedAction.name \notin toolMap(f)

BadReplyEvents == {"parse_error", "unknown_tool"}

C19_BadReplyEndsRun ==
  \A f \in Frames :
    /\ (GatewayCalls(f) >= 1 /\ f.pc # "llm" /\ ~Has(f.events, {"llm_fail"}) /\ IsBadReply(f)) =>
         Has(f.events, BadReplyEvents)
    /\ Has(f.events, BadReplyEvents) =>
         /\ IsBadReply(f)
         /\ Count(f.events, BadReplyEvents) = 1
         /\ Last(f.events) \in BadReplyEvents
         /\ f.events[Len(f.events) - 1] = "llm_call"
         /\ f.pc = "returned"
         /\ ~f.result.success
         /\ f.result.reason = "error"
         /\ f.result.steps = f.messages
         /\ ToolExecutions(f) = Count(f.events, ToolReturnEvents)
         /\ f.iteration = GatewayCalls(f) - 1
         /\ f.iteration = ToolExecutions(f)

\* the second reply of a run calls the unknown tool "bogus", after a tool
\* round trip
C19_Witness ==
  \E f \in Frames :
    /\ LastIs(f.events, {"unknown_tool"})
    /\ f.response.fc = "bogus"
    /\ GatewayCalls(f) = 2
    /\ ToolExecutions(f) = 1
    /\ ~f.result.success

\* ---------------------------------------------------------------------- C20
\* C20 (as claimed): a run of an agent with a handoff rule whose target is
\* not registered makes no Gateway call and no tool call, and its result,
\* if any, is an error.
UnregisteredTargets(agent) ==
  {registry[agent].handoffs[i].targetAgentName : i \in 1..Len(registry[agent].handoffs)}
    \ DOMAIN registry

IsEnvelopeToolCall(response) ==
  /\ response.brace
  /\ response.marker
  /\ response.parses
  /\ response.jsonTool # ""

C21_ReplyPrecedence ==
  (call.op = "parseResponse" /\ call.pc = "returned") =>
    LET response == call.arg IN
    /\ response.fc # "" => call.ret = ToolCallAction(response.fc)
    /\ (response.fc = "" /\ response.text # "" /\ IsEnvelopeToolCall(response)) =>
         call.ret = ToolCallAction(response.jsonTool)
    /\ (response.fc = "" /\ response.text # "" /\ ~IsEnvelopeToolCall(response)) =>
         call.ret = FinalAnswerAction(response.text)

\* a reply with a function call of search and a text that is an envelope for
\* calc is a tool call of search
C21_Witness ==
  /\ call.op = "parseResponse"
  /\ call.pc = "returned"
  /\ call.arg.fc = "search"
  /\ IsEnvelopeToolCall(call.arg)
  /\ call.arg.jsonTool = "calc"
  /\ call.ret = ToolCallAction("search")

\* ---------------------------------------------------------------------- C22
\* C22 (as claimed): the interpretation of every reply is a tool call or a
\* final answer.
C22_NeverAnError ==
  (call.op = "parseResponse" /\ call.pc = "returned") =>
    call.ret.type \in {"tool_call", "final_answer"}

\* C22 (amended): the interpretation of a reply never throws; it is a tool
\* call or a final answer for every reply that has a function call or a
\* non-empty text, whatever the text (an envelope that is no JSON is a final
\* answer), and it is the error action exactly for a reply with neither.
C22_ErrorOnlyForEmptyReply ==
  (call.op = "parseResponse" /\ call.pc = "returned") =>
    /\ call.ret.type \in {"tool_call", "final_answer", "error"}
    /\ call.ret.type = "error" <=> (call.arg.fc = "" /\ call.arg.text = "")
    /\ call.ret.type = "final_answer" => call.ret.answer = call.arg.text

\* a text that looks like an envelope and is no JSON degrades to a final answer
C22_Witness ==
  /\ call.op = "parseResponse"
  /\ call.pc = "returned"
  /\ call.arg.fc = ""
  /\ call.arg.brace
  /\ call.arg.marker
  /\ ~call.arg.parses
  /\ call.ret = FinalAnswerAction(call.arg.text)

\* ---------------------------------------------------------------------- C23
\* `text.includes(part)`
Contains(text, part) ==
  \E i \in 1..(Len(text) - Len(part) + 1) : SubSeq(text, i, i + Len(part) - 1) = part

Executed == call.op = "execute" /\ call.pc = "returned"

\* C23 (as claimed): a tool result is a failure exactly when the tool threw,
\* or returned an object with a truthy error field, or returned an object with
\* success equal to false; every other return is a success.
C23_FailureExactlyWhen ==
  Executed =>
    (call.ret.isError <=>
       \/ call.arg.kind = "throw"
       \/ /\ call.arg.kind = "object"
          /\ \/ "error" \in DOMAIN call.arg.fields /\ Truthy(call.arg.fields["error"])
             \/ "success" \in DOMAIN call.arg.fields /\ call.arg.fields["success"] = "false")

\* ---------------------------------------------------------------------- C28
\* C28 (as claimed): the resultText of the tool result of an output that
\* carries imageData does not hold that field, and the raw output is the
\* resultData of the message.
C28_ImageKeptOutOfText ==
  (Executed /\ hasOwnProperty(call.arg, "imageData")) =>
    /\ ~Contains(call.ret.resultText, "imageData")
    /\ ~Contains(call.ret.resultText, AsText(call.arg.fields["imageData"]))
    /\ call.ret.resultData = call.arg

\* ---------------------------------------------------------------------- C24
\* the external calls of a run that have started and not completed
OutstandingToolCalls(f) == ToolExecutions(f) - Count(f.events, ToolReturnEvents)

OutstandingGatewayCalls(f) == IF LastIs(f.events, {"llm_call"}) THEN 1 ELSE 0

\* C24: a run has at every moment at most one outstanding external call: a
\* tool starts right after the Gateway call of its iteration has completed,
\* and a Gateway call starts with no tool outstanding; the Gateway call that
\* follows a tool execution starts with the ToolResult of that tool as the
\* last message of the log.
C24_OneOutstandingCall ==
  \A f \in Frames :
    /\ OutstandingToolCalls(f) + OutstandingGatewayCalls(f) <= 1
    /\ \A i \in 1..Len(f.events) :
         /\ f.events[i] = "tool_exec" => (i > 1 /\ f.events[i - 1] = "llm_call")
         /\ (f.events[i] = "llm_call" /\ i > 1) => f.events[i - 1] \in ToolReturnEvents
    /\ (f.pc = "llm" /\ f.iteration > 0) =>
         /\ IsToolResult(Last(f.messages))
         /\ Last(f.messages).toolCallId = f.toolCallId
         /\ Last(f.messages).toolName = f.toolName

\* the Gateway call of the second iteration, started after the tool of the
\* first has returned
C24_Witness ==
  \E f \in Frames :
    /\ f.pc = "llm"
    /\ f.events = <<"llm_call", "tool_exec", "tool_ok", "llm_call">>
    /\ IsToolResult(Last(f.messages))

\* ---------------------------------------------------------------------- C25
Elements(seq) == {seq[i] : i \in 1..Len(seq)}

\* C25: each run owns its message log: the log of a run is the content it
\* started from followed by the messages the run itself pushed, in whatever
\* order concurrent runs and handed-off runs take their steps; no two runs and
\* no run and its caller work on the same array, a message pushed by a run is
\* in the log of another run only as part of the history handed off to it,
\* and the caller's array keeps its content.
C25_LogsOwned ==
  call.op = "runs" =>
    /\ heap[CallerArray] = call.initial
    /\ \A r \in 1..Len(call.runs) :
         /\ heap[call.runs[r].messages] = call.runs[r].start \o call.runs[r].own
         /\ call.runs[r].messages # CallerArray
         /\ \A s \in 1..Len(call.runs) \ {r} :
              /\ call.runs[s].messages # call.runs[r].messages
              /\ Elements(call.runs[r].own) \cap Elements(heap[call.runs[s].messages])
                   \subseteq Elements(call.runs[s].start)

\* two runs of the caller and the target of a handoff of the first, each with
\* a message of its own, the target started on a history with a message of
\* its delegator
C25_Witness ==
  /\ call.op = "runs"
  /\ \E r, s, t \in 1..Len(call.runs) :
       /\ r # s
       /\ call.runs[r].parent = 0
       /\ call.runs[s].parent = 0
       /\ call.runs[t].parent = r
       /\ call.runs[r].own # <<>>
       /\ call.runs[s].own # <<>>
       /\ call.runs[t].own # <<>>
       /\ Elements(call.runs[r].own) \cap Elements(call.runs[t].start) # {}

\* ------------------------------------------- a run and a cancellation signal
\* one agent with the ordinary tools and no handoff
SoloRegistry ==
  [n \in AgentNames |->
     IF n = "A" THEN AgentConfig("modelA", "promptA", OrdinaryTools, MaxIter, <<>>, FALSE)
     ELSE AgentConfig("modelB", "promptB", {"search"}, 1, <<>>, FALSE)]

\* call.raised: the caller has raised the signal; call.gatewayCalls: the
\* Gateway calls the run had started by then
InitCancel ==
  /\ registry = SoloRegistry
  /\ \E msgs \in InitialLogs :
       stack = <<Frame("A", registry["A"], msgs, "args")>>
  /\ nextId = 1
  /\ heap = NoHeap
  /\ call = [op |-> "cancel", raised |-> FALSE, gatewayCalls |-> 0]

\* the caller raises the signal while the run is in progress; run has no
\* parameter for it and reads no state of its caller
RaiseCancel ==
  /\ call.op = "cancel"
  /\ ~call.raised
  /\ Top.pc \notin {"returned", "threw"}
  /\ call' = [call EXCEPT !.raised = TRUE, !.gatewayCalls = GatewayCalls(Top)]
  /\ UNCHANGED <<registry, stack, nextId, heap>>

NextCancel ==
  \/ RaiseCancel
  \/ BuildPrompt
  \/ BuildPromptThrows
  \/ GatewayFails
  \/ ReplyFinalAnswer
  \/ ReplyUnparsable
  \/ ReplyUnknownTool
  \/ ReplyToolCall
  \/ ToolReturns
  \/ MaxIterationsReached

SpecCancel == InitCancel /\ [][NextCancel]_vars

\* ---------------------------------------------------------------------- C26
\* C26 (as claimed): after a cancellation signal raised while the run is in
\* progress the run starts no further Gateway call, and it ends with a
\* cancelled status.
C26_CancelledAtBoundary ==
  (call.op = "cancel" /\ call.raised) =>
    \A f \in Frames :
      /\ GatewayCalls(f) <= call.gatewayCalls
      /\ f.pc = "returned" => f.result.reason = "cancelled"

\* ------------------------------------------ a traced and an untraced run
\* Two runs of the same agent on the same initial messages, stack[Traced] with
\* a tracing context that has a traceId and stack[Untraced] without one, are
\* given the same Gateway replies, tool returns and tool call ids, step by
\* step; a run that has ended keeps its state.  call.observations counts the
\* calls of createObservation.
Traced == 1
Untraced == 2

\* createObservation resolves, or rejects with a value that JSON.stringify
\* writes, or rejects with a value that JSON.stringify refuses
EmissionOutcomes == {"emitted", "rejected", "rejected_unserialisable"}

\* the prompt is built and llm.call starts
OnPromptBuilt(f) ==
  [f EXCEPT !.pc = "llm", !.events = @ \o <<"llm_call">>]

\* `JSON.stringify(tracingError, null, 2)` in the catch of the generation
\* observation throws, inside the try around the Gateway call
OnObservationThrow(f) ==
  [OnGatewayFailure(f) EXCEPT !.events = f.events \o <<"observation_throw">>]

\* the generation observation before the Gateway call
OnObservation(f, outcome) ==
  IF outcome = "rejected_unserialisable" THEN OnObservationThrow(f) ELSE OnPromptBuilt(f)

\* the response is parsed and the action processed, up to the next await
OnReply(f, response, toolCallId) ==
  LET parsedAction == parseResponse(response)
      g == [f EXCEPT !.response = response] IN
  CASE parsedAction.type = "final_answer" -> OnFinalAnswer(g, parsedAction.answer)
    [] parsedAction.type = "error" -> OnLoopError(g, "parse_error")
    [] parsedAction.type = "tool_call" /\ parsedAction.name \notin toolMap(f) ->
         OnLoopError(OnToolCall(g, parsedAction.name, toolCallId), "unknown_tool")
    [] OTHER ->
         [OnToolCall(g, parsedAction.name, toolCallId)
            EXCEPT !.pc = "tool", !.events = @ \o <<"tool_exec">>]

AtLoopHead(f) == f.pc = "loop" /\ LoopContinues(f)

InitTracing ==
  /\ registry = SoloRegistry
  /\ \E msgs \in InitialLogs :
       stack = <<Frame("A", registry["A"], msgs, "args"), Frame("A", registry["A"], msgs, "args")>>
  /\ nextId = 1
  /\ heap = NoHeap
  /\ call = [op |-> "tracing", observations |-> 0]

\* loop head to llm.call; the traced run emits the generation observation
PairBuildPrompt ==
  /\ call.op = "tracing"
  /\ \E i \in {Traced, Untraced} : AtLoopHead(stack[i])
  /\ \E outcome \in EmissionOutcomes :
       stack' = <<IF AtLoopHead(stack[Traced]) THEN OnObservation(stack[Traced], outcome)
                  ELSE stack[Traced],
                  IF AtLoopHead(stack[Untraced]) THEN OnPromptBuilt(stack[Untraced])
                  ELSE stack[Untraced]>>
  /\ call' = [call EXCEPT !.observations = @ + (IF AtLoopHead(stack[Traced]) THEN 1 ELSE 0)]
  /\ UNCHANGED <<registry, nextId, heap>>

\* llm.call throws for both runs
PairGatewayFails ==
  /\ call.op = "tracing"
  /\ \E i \in {Traced, Untraced} : stack[i].pc = "llm"
  /\ stack' = [i \in {Traced, Untraced} |->
                 IF stack[i].pc = "llm" THEN OnGatewayFailure(stack[i]) ELSE stack[i]]
  /\ UNCHANGED <<registry, nextId, side>>

\* the same reply for both runs; the traced run emits the output of the
\* generation and, for a tool call, the tool-call event, whose failures are
\* caught and logged
PairReply ==
  /\ call.op = "tracing"
  /\ \E i \in {Traced, Untraced} : stack[i].pc = "llm"
  /\ \E response \in Responses :
       stack' = [i \in {Traced, Untraced} |->
                   IF stack[i].pc = "llm" THEN OnReply(stack[i], response, nextId)
                   ELSE stack[i]]
  /\ call' = [call EXCEPT !.observations = @ + (IF stack[Traced].pc = "llm" THEN 1 ELSE 0)]
  /\ nextId' = nextId + 1
  /\ UNCHANGED <<registry, heap>>

\* the same tool return for both runs
PairToolReturns ==
  /\ call.op = "tracing"
  /\ \E i \in {Traced, Untraced} : stack[i].pc = "tool"
  /\ \E toolName \in OrdinaryTools :
       /\ \A i \in {Traced, Untraced} : stack[i].pc = "tool" => stack[i].toolName = toolName
       /\ \E ret \in ToolReturnValues(toolName) :
            stack' = [i \in {Traced, Untraced} |->
                        IF stack[i].pc = "tool" THEN OnToolReturn(stack[i], ret) ELSE stack[i]]
  /\ UNCHANGED <<registry, nextId, side>>

\* the loop ends on its budget
PairMaxIterations ==
  /\ call.op = "tracing"
  /\ \E i \in {Traced, Untraced} : stack[i].pc = "loop" /\ ~LoopContinues(stack[i])
  /\ stack' = [i \in {Traced, Untraced} |->
                 IF stack[i].pc = "loop" /\ ~LoopContinues(stack[i])
                 THEN OnMaxIterations(stack[i]) ELSE stack[i]]
  /\ UNCHANGED <<registry, nextId, side>>

NextTracing ==
  \/ PairBuildPrompt
  \/ PairGatewayFails
  \/ PairReply
  \/ PairToolReturns
  \/ PairMaxIterations

SpecTracing == InitTracing /\ [][NextTracing]_vars

\* ---------------------------------------------------------------------- C27
\* the Gateway calls and tool executions of a run, in order
ExternalCalls(f) == SelectSeq(f.events, LAMBDA e : e \in {"llm_call", "tool_exec"})

\* C27 (as claimed): a run with a tracing context, whether its observations
\* are emitted or fail, and a run without one, given the same inputs, replies
\* and tool returns, take the same Gateway and tool calls and return the same
\* result with the same message log.
C27_TracingChangesNothing ==
  call.op = "tracing" =>
    /\ stack[Traced].pc = stack[Untraced].pc
    /\ ExternalCalls(stack[Traced]) = ExternalCalls(stack[Untraced])
    /\ stack[Traced].messages = stack[Untraced].messages
    /\ stack[Traced].result = stack[Untraced].result

\* --------------------------------------- sanitizeToolResultForText on drawn values
MaxCalls == 2

\* mutant: the error field is removed too
sanitize_RemovesError(data, remove) ==
  IF data.kind # "object"
  THEN [returned |-> data, argument |-> data]
  ELSE LET kept == DOMAIN data.fields \ (remove \cup {"error"}) IN
       [returned |-> [data EXCEPT !.fields = [k \in kept |-> data.fields[k]]],
        argument |-> data]

\* mutant: the fields are deleted from the argument itself
sanitize_InPlace(data, remove) ==
  IF data.kind # "object"
  THEN [returned |-> data, argument |-> data]
  ELSE LET kept == DOMAIN data.fields \ remove
           sanitized == [data EXCEPT !.fields = [k \in kept |-> data.fields[k]]] IN
       [returned |-> sanitized, argument |-> sanitized]

\* The body shared by the copies of sanitizeToolResultForText: what the call
\* returns and what its argument is after the call.  A value that is no object
\* (null included) is returned as it is; of an object a shallow copy is made
\* and the own fields to remove are deleted from the copy.
sanitize(data, remove) ==
  IF data.kind # "object"
  THEN [returned |-> data, argument |-> data]
  ELSE LET kept == DOMAIN data.fields \ remove IN
       [returned |-> [data EXCEPT !.fields = [k \in kept |-> data.fields[k]]],
        argument |-> data]

fieldsToRemove == {"imageData", "success", "dataUrl"}

\* the function of part_001 and part_010
sanitizeToolResultForText(data) == sanitize(data, fieldsToRemove)

\* the function of test_sanitization.js, part_000 and part_002
sanitizeImageData(data) == sanitize(data, {"imageData"})

Variants == {"enhanced", "imageData"}

SanitizeFieldValues ==
  [imageData |-> {"\"iVBOR\""}, success |-> {"true", "false"}, dataUrl |-> {"\"data:\""},
   error |-> {"\"x\""}, xpath |-> {"\"//a\""}]

SanitizeInputs ==
  {ReturnedString("ok"), ToolReturn("undefined", "", NoFields, FALSE),
   ToolReturn("null", "", NoFields, FALSE)}
  \cup {ReturnedObject(fields) : fields \in FieldsOver(SanitizeFieldValues)}

InitSanitize ==
  /\ Idle
  /\ heap = NoHeap
  /\ \E data \in SanitizeInputs, variant \in Variants :
       call = [op |-> "sanitize", variant |-> variant, original |-> data,
               arg |-> data, ret |-> NoData, calls |-> 0]

\* one more call of the function on the same tool result
Sanitize ==
  /\ call.op = "sanitize"
  /\ call.calls < MaxCalls
  /\ LET done == IF call.variant = "enhanced" THEN sanitizeToolResultForText(call.arg)
                 ELSE sanitizeImageData(call.arg) IN
     call' = [call EXCEPT !.arg = done.argument, !.ret = done.returned, !.calls = @ + 1]
  /\ UNCHANGED <<registry, stack, nextId, heap>>

NextSanitize == Sanitize

SpecSanitize == InitSanitize /\ [][NextSanitize]_vars

\* ---------------------------------------------------------------------- C29
Sanitized == call.op = "sanitize" /\ call.calls > 0

\* the returned value is the original without the fields of removed
ReturnedWithout(removed) ==
  IF call.original.kind = "object"
  THEN /\ call.ret.kind = "object"
       /\ DOMAIN call.ret.fields = DOMAIN call.original.fields \ removed
       /\ \A k \in DOMAIN call.ret.fields : call.ret.fields[k] = call.original.fields[k]
  ELSE call.ret = call.original

C30_ArgumentKept ==
  Sanitized => call.arg = call.original

\* a tool result with imageData, sanitized twice: the returned copy has no
\* imageData, the tool result still has it
C30_Witness ==
  /\ Sanitized
  /\ call.calls = MaxCalls
  /\ hasOwnProperty(call.original, "imageData")
  /\ ~hasOwnProperty(call.ret, "imageData")
  /\ hasOwnProperty(call.arg, "imageData")
  /\ call.arg.fields["imageData"] = call.original.fields["imageData"]

\* -------------------------------------------- conversion to the wire format
MaxLog == 2

WireMessage(role, content, tool_call_id, name) ==
  [role |-> role, content |-> content, tool_call_id |-> tool_call_id, name |-> name]

\* the wire messages one log message becomes in convertToLLMMessages: one or none
llmMessagesOf(msg) ==
  IF msg.entity = "user" THEN <<WireMessage("user", msg.text, NoId, "")>>
  ELSE IF msg.entity = "model"
  THEN IF msg.action = "final" /\ msg.text # ""
       THEN <<WireMessage("assistant", msg.text, NoId, "")>>
       ELSE IF msg.action = "tool" /\ msg.toolCallId # NoId
       THEN <<WireMessage("assistant", UndefinedText, msg.toolCallId, msg.toolName)>>
       ELSE <<>>
  ELSE IF msg.entity = "tool_result"
  THEN IF msg.toolCallId # NoId /\ msg.text \notin {"", UndefinedText}
       THEN <<WireMessage("tool", msg.text, msg.toolCallId, "")>>
       ELSE <<>>
  ELSE <<>>

RECURSIVE convertToLLMMessages(_)
convertToLLMMessages(messages) ==
  IF messages = <<>> THEN <<>>
  ELSE llmMessagesOf(Head(messages)) \o convertToLLMMessages(Tail(messages))

\* the wire messages one log message becomes in convertToOpenAIMessages; uuid
\* is what crypto.randomUUID() gives for a tool call without toolCallId
openAIMessagesOf(msg, uuid) ==
  IF msg.entity = "user" THEN <<WireMessage("user", msg.text, NoId, "")>>
  ELSE IF msg.entity = "model"
  THEN IF msg.action = "tool" /\ msg.toolName # ""
       THEN <<WireMessage("assistant", "null",
                          IF msg.toolCallId # NoId THEN msg.toolCallId ELSE uuid,
                          msg.toolName)>>
       ELSE IF msg.action = "final" /\ msg.text # ""
       THEN <<WireMessage("assistant", msg.text, NoId, "")>>
       ELSE <<>>
  ELSE IF msg.entity = "tool_result"
  THEN IF msg.toolCallId # NoId
       THEN <<WireMessage("tool", msg.text, msg.toolCallId, msg.toolName)>>
       ELSE <<>>
  ELSE <<>>

RECURSIVE openAIMessagesOfAll(_, _)
openAIMessagesOfAll(messages, uuid) ==
  IF messages = <<>> THEN <<>>
  ELSE openAIMessagesOf(Head(messages), uuid) \o openAIMessagesOfAll(Tail(messages), uuid)

convertToOpenAIMessages(messages, systemPrompt, uuid) ==
  <<WireMessage("system", systemPrompt, NoId, "")>> \o openAIMessagesOfAll(messages, uuid)

\* the messages a log is drawn from: a tool call 1 of search, a tool call
\* without toolCallId, the results of tool call 1
\* (with a text, with the empty text a tool may return, a failure), the
\* ToolResult of a catch block, final answers with and without text
LogMessages ==
  {UserMessage("q"), ModelToolMessage("search", 1), ModelToolMessage("search", NoId),
   ModelFinalMessage("a"),
   ModelFinalMessage(""), ToolResultMessage("search", 1, FALSE, "r"),
   ToolResultMessage("search", 1, FALSE, ""), ToolResultMessage("search", 1, TRUE, "x"),
   SystemErrorMessage("LLM call failed")}

Logs == UNION {[1..n -> LogMessages] : n \in 0..MaxLog}

RandomIds == {90, 91}

InitWire ==
  /\ Idle
  /\ heap = NoHeap
  /\ \E messages \in Logs :
       call = [op |-> "convert", pc |-> "called", arg |-> messages, by |-> "", ret |-> <<>>]

\* AgentRunner.convertToLLMMessages(messages)
ConvertToLLMMessages ==
  /\ call.op = "convert"
  /\ call.pc = "called"
  /\ call' = [call EXCEPT !.pc = "returned", !.by = "convertToLLMMessages",
                          !.ret = convertToLLMMessages(call.arg)]
  /\ UNCHANGED <<registry, stack, nextId, heap>>

\* UnifiedLLMClient.convertToOpenAIMessages(messages, systemPrompt)
ConvertToOpenAIMessages ==
  /\ call.op = "convert"
  /\ call.pc = "called"
  /\ \E uuid \in RandomIds :
       call' = [call EXCEPT !.pc = "returned", !.by = "convertToOpenAIMessages",
                            !.ret = convertToOpenAIMessages(call.arg, "promptA", uuid)]
  /\ UNCHANGED <<registry, stack, nextId, heap>>

NextWire ==
  \/ ConvertToLLMMessages
  \/ ConvertToOpenAIMessages

SpecWire == InitWire /\ [][NextWire]_vars

\* ---------------------------------------------------------------------- C31
\* the wire messages that stand for log messages
WireOfLog ==
  IF call.by = "convertToOpenAIMessages" THEN Tail(call.ret) ELSE call.ret

RoleOf(msg) ==
  IF msg.entity = "user" THEN "user"
  ELSE IF msg.entity = "model" THEN "assistant"
  ELSE "tool"

\* C31 (as claimed): the conversion gives one wire message for each log
\* message, in log order, with the role of the variant, a tool invocation and
\* a tool-role message carrying the toolCallId of the log message; no log
\* message is dropped.
C31_OneWireMessageEach ==
  (call.op = "convert" /\ call.pc = "returned") =>
    /\ Len(WireOfLog) = Len(call.arg)
    /\ \A i \in 1..Len(call.arg) :
         i <= Len(WireOfLog) =>
           /\ WireOfLog[i].role = RoleOf(call.arg[i])
           /\ WireOfLog[i].tool_call_id = call.arg[i].toolCallId

\* ---------------------------------------------------------------------- C32
IsPrefix(s, t) == Len(s) <= Len(t) /\ SubSeq(t, 1, Len(s)) = s

\* every step leaves the log of every run that is there before and after it
\* as it was or longer
LogsOnlyGrow ==
  \A i \in 1..Len(stack) :
    i <= Len(stack') => IsPrefix(stack[i].messages, stack'[i].messages)

MutualRegistry ==
  [n \in AgentNames |->
     IF n = "A"
     THEN AgentConfig("modelA", "promptA", OrdinaryTools, MaxIter,
                      <<HandoffConfig("B", "max_iterations", {})>>, FALSE)
     ELSE AgentConfig("modelB", "promptB", {"search"}, 1,
                      <<HandoffConfig("A", "max_iterations", {})>>, FALSE)]

InitChain ==
  /\ registry = MutualRegistry
  /\ \E msgs \in InitialLogs :
       stack = <<Frame("A", registry["A"], msgs, "args")>>
  /\ nextId = 1
  /\ call = NoCall
  /\ heap = NoHeap

\* the steps of Next that these agents can take; a chain is followed up to
\* MaxDepth runs
NextChain ==
  \/ BuildPrompt
  \/ BuildPromptThrows
  \/ GatewayFails
  \/ ReplyFinalAnswer
  \/ ReplyUnparsable
  \/ ReplyUnknownTool
  \/ ReplyToolCall
  \/ ToolReturns
  \/ MaxIterationsHandoff
  \/ HandoffTargetReturns
  \/ HandoffTargetThrows

SpecChain == InitChain /\ [][NextChain]_vars

\* ---------------------------------------------------------------------- C33
\* the run on top of the chain has used up its budget and executeHandoff is
\* about to start a run of a registered target
HandoffDue ==
  /\ stack # <<>>
  /\ Top.pc = "loop"
  /\ ~LoopContinues(Top)
  /\ \E handoffConfig \in maxIterHandoffConfig(Top.agent) :
       handoffConfig.targetAgentName \in DOMAIN registry

\* C33 (as claimed): a chain of handoffs ends: however deep a chain is
\* followed, at that depth no further handoff is due, two agents that target
\* each other included.
C33_ChainEnds ==
  ~(Len(stack) = MaxDepth /\ HandoffDue)

\* ------------------------------------------------ a run without handoff rules
InitSolo ==
  /\ registry = SoloRegistry
  /\ \E msgs \in InitialLogs :
       stack = <<Frame("A", registry["A"], msgs, "args")>>
  /\ nextId = 1
  /\ call = NoCall
  /\ heap = NoHeap

NextSolo ==
  \/ BuildPrompt
  \/ BuildPromptThrows
  \/ GatewayFails
  \/ ReplyFinalAnswer
  \/ ReplyUnparsable
  \/ ReplyUnknownTool
  \/ ReplyToolCall
  \/ ToolReturns
  \/ MaxIterationsReached

\* every await of the run settles: the prompt is built or the building fails,
\* the Gateway call and the tool execution return or fail
SpecSolo == InitSolo /\ [][NextSolo]_vars /\ WF_vars(NextSolo)

\* ---------------------------------------------------------------------- C34
TerminalReasons == {"final_answer", "error", "max_iterations"}

\* C34 (as claimed): the run of an agent without handoff rules, whose Gateway
\* calls and tool executions all return or fail, eventually returns a result
\* that is Final, Error or MaxIterations, after at most maxIterations Gateway
\* calls and at most maxIterations tool executions.
C34_RunEnds ==
  /\ <>(Top.pc = "returned" /\ Top.result.reason \in TerminalReasons)
  /\ [](GatewayCalls(Top) <= Top.maxIterations /\ ToolExecutions(Top) <= Top.maxIterations)

\* ---------------------------------------------------------------------- C35
\* the registered agents an agent has an llm-triggered rule for
LLMTargets(agent) ==
  {registry[agent].handoffs[i].targetAgentName :
     i \in {j \in 1..Len(registry[agent].handoffs) : IsLLMTrigger(registry[agent].handoffs[j])}}
  \cap DOMAIN registry

\* C35: the handoff tools of a run are the tools handoff_to_X of the
\* registered agents X its agent has a rule for with trigger llm_tool_call or
\* none, and only a call of one of them is taken as a handoff; a call of
\* handoff_to_X for any other X (named by a max_iterations rule only, or not
\* registered) is a call of an unknown tool: the run returns an error result
\* and no run of X is started.
C35_HandoffToolsOnlyForLLMRules ==
  \A i \in 1..Len(stack) :
    LET f == stack[i] IN
    /\ HandoffToolNames(f.agent) = {HandoffToolName(x) : x \in LLMTargets(f.agent)}
    /\ Has(f.events, {"handoff_call"}) =>
         f.toolName \in {HandoffToolName(x) : x \in LLMTargets(f.agent)}
    /\ \A x \in (AgentNames \cup {"ghost"}) \ LLMTargets(f.agent) :
         (f.response.fc = HandoffToolName(x) /\ f.pc # "llm") =>
           /\ f.pc = "returned"
           /\ ~f.result.success
           /\ f.result.reason = "error"
           /\ LastIs(f.events, {"unknown_tool"})
           /\ ~Has(f.events, {"handoff_call", "handoff_run"})
           /\ i = Len(stack)

\* B is named by a max_iterations rule only and the model calls handoff_to_B:
\* the run has ended with an error and B has not run
C35_Witness ==
  \E f \in Frames :
    /\ f.agent = "A"
    /\ HasMaxIterationsRule("A")
    /\ LLMTargets("A") = {}
    /\ f.response.fc = HandoffToolName("B")
    /\ f.pc = "returned"
    /\ f.result.reason = "error"
    /\ LastIs(f.events, {"unknown_tool"})
    /\ Len(stack) = 1

\* ---------------------------------------------------------------------- C36
Occurrences(seq, m) == Cardinality({i \in 1..Len(seq) : seq[i] = m})

\* C36 (as claimed): in the log of a returned result no two Model.Tool
\* messages carry the same toolCallId, and no message the run appended is
\* there more than once, the combined log of a handoff included.
C36_NoDuplicates ==
  \A f \in Frames :
    (f.pc = "returned" /\ f.result.hasSteps) =>
      LET log == f.result.steps IN
      /\ \A i, j \in 1..Len(log) :
           (i < j /\ IsModelTool(log[i]) /\ IsModelTool(log[j])) =>
             log[i].toolCallId # log[j].toolCallId
      /\ \A k \in 1..Len(Appended(f)) : Occurrences(log, Appended(f)[k]) <= 1

\* ---------------------------------------------------------------------- C37
\* in a wire list every assistant message with a tool invocation is followed,
\* before the next assistant message, by the tool message of its id
WireCallsAnswered(wire) ==
  \A i \in 1..Len(wire) :
    (wire[i].role = "assistant" /\ wire[i].tool_call_id # NoId) =>
      \E j \in (i + 1)..Len(wire) :
        /\ wire[j].role = "tool"
        /\ wire[j].tool_call_id = wire[i].tool_call_id
        /\ \A k \in (i + 1)..(j - 1) : wire[k].role # "assistant"

\* C37 (as claimed): in the wire list of every Gateway call of a run each
\* tool invocation is followed by the tool message of its id before the next
\* assistant message, whatever the tools returned.
C37_WireCallsAnswered ==
  \A f \in Frames :
    f.pc = "llm" => WireCallsAnswered(convertToLLMMessages(f.messages))

\* ------------------------------------------ routeNextNode on drawn messages
MaxRouteLen == 2

\* the keys routeNextNode returns: the three members of NodeType it names, and 'end'
AGENT == "NodeType.AGENT"

TOOL_EXECUTOR == "NodeType.TOOL_EXECUTOR"

FINAL == "NodeType.FINAL"

END == "end"

\* mutant: the first message decides
routeNextNode_FirstMessage(messages) ==
  IF Len(messages) = 0
  THEN AGENT
  ELSE LET lastMessage == messages[1] IN
       CASE lastMessage.entity = "user" -> AGENT
         [] lastMessage.entity = "model" ->
              IF lastMessage.action = "tool" THEN TOOL_EXECUTOR
              ELSE IF lastMessage.action = "final" THEN FINAL
              ELSE END
         [] lastMessage.entity = "tool_result" -> AGENT
         [] OTHER -> END

\* `routeNextNode(state)`, of `state.messages`
routeNextNode(messages) ==
  IF Len(messages) = 0
  THEN AGENT
  ELSE LET lastMessage == messages[Len(messages)] IN
       CASE lastMessage.entity = "user" -> AGENT
         [] lastMessage.entity = "model" ->
              IF lastMessage.action = "tool" THEN TOOL_EXECUTOR
              ELSE IF lastMessage.action = "final" THEN FINAL
              ELSE END
         [] lastMessage.entity = "tool_result" -> AGENT
         [] OTHER -> END

\* the messages of a state: the four kinds the switch names, a Model message
\* with another action, one with no action, and a message of another entity
RouteMessages ==
  {UserMessage("q"), ModelToolMessage("search", 1), ModelFinalMessage("a"),
   ToolResultMessage("search", 1, FALSE, "r"),
   [ModelFinalMessage("a") EXCEPT !.action = "think"],
   [ModelFinalMessage("a") EXCEPT !.action = ""],
   [UserMessage("q") EXCEPT !.entity = "agent_session"]}

RouteStates == UNION {[1..n -> RouteMessages] : n \in 0..MaxRouteLen}

InitRoute ==
  /\ Idle
  /\ heap = NoHeap
  /\ \E messages \in RouteStates :
       call = [op |-> "routeNextNode", pc |-> "called", arg |-> messages, ret |-> ""]

\* an edge function asks for the next node
RouteNextNode ==
  /\ call.op = "routeNextNode"
  /\ call.pc = "called"
  /\ call' = [call EXCEPT !.pc = "returned", !.ret = routeNextNode(call.arg)]
  /\ UNCHANGED <<registry, stack, nextId, heap>>

NextRoute == RouteNextNode

SpecRoute == InitRoute /\ [][NextRoute]_vars

\* ---------------------------------------------------------------------- C38
\* C38: routeNextNode decides by the last message only: AGENT for no message
\* and for a last User or ToolResult message, TOOL_EXECUTOR exactly for a last
\* Model message with action 'tool', FINAL exactly for one with action
\* 'final', 'end' for any other Model action or entity.
C38_RouteByLastMessage ==
  (call.op = "routeNextNode" /\ call.pc = "returned") =>
    LET messages == call.arg
        n == Len(messages)
    IN
    /\ n = 0 => call.ret = AGENT
    /\ n > 0 =>
         LET last == messages[n] IN
         /\ last.entity \in {"user", "tool_result"} => call.ret = AGENT
         /\ call.ret = TOOL_EXECUTOR <=> IsModelTool(last)
         /\ call.ret = FINAL <=> IsModelFinal(last)
         /\ (last.entity \notin {"user", "tool_result", "model"}
               \/ (last.entity = "model" /\ last.action \notin {"tool", "final"})) =>
              call.ret = END
    /\ call.ret = TOOL_EXECUTOR => (n > 0 /\ IsModelTool(messages[n]))

\* a list that starts with a Model.Tool message and ends with a Model message
\* of another action is routed to 'end'
C38_Witness ==
  /\ call.op = "routeNextNode"
  /\ call.pc = "returned"
  /\ Len(call.arg) = 2
  /\ IsModelTool(call.arg[1])
  /\ call.arg[2].entity = "model"
  /\ call.arg[2].action = "think"
  /\ call.ret = END

\* ------------------------------------- runTestWithRetries on drawn outcomes
MaxRetries == 3

\* an optional number: <<>> for a field that is not set, <<n>> for n
Retries == {<<>>} \cup {<<n>> : n \in 0..MaxRetries}

\* `a || ...` takes a when it is set and not 0
IsSet(retries) == retries # <<>> /\ retries[1] # 0

\* mutant: the configuration goes before the test case
maxRetriesOf_ConfigFirst(testRetries, configRetries) ==
  IF IsSet(configRetries) THEN configRetries[1]
  ELSE IF IsSet(testRetries) THEN testRetries[1]
  ELSE 1

\* `testCase.metadata.retries || this.config.retries || 1`
maxRetriesOf(testRetries, configRetries) ==
  IF IsSet(testRetries) THEN testRetries[1]
  ELSE IF IsSet(configRetries) THEN configRetries[1]
  ELSE 1

\* what an execution of a test case meets: the navigation fails, the tool
\* throws, the tool returns a failure, the tool returns a success
TestOutcomes == {"navigation_failed", "tool_throws", "tool_failed", "tool_succeeded"}

NoRetryCount == -1

NoTestResult == [status |-> "none", timestamp |-> 0, retryCount |-> NoRetryCount]

\* `runTest(testCase, tool)`: what is thrown inside the try gives the status
\* 'error'; now is the reading of `Date.now()`
runTest(met, now) ==
  [status |-> CASE met \in {"navigation_failed", "tool_throws"} -> "error"
                [] met = "tool_succeeded" -> "passed"
                [] OTHER -> "failed",
   timestamp |-> now,
   retryCount |-> NoRetryCount]

\* the result of a loop that made no attempt
NoAttemptResult(maxRetries) ==
  [status |-> "error", timestamp |-> 0, retryCount |-> maxRetries]

InitRetry ==
  /\ Idle
  /\ heap = NoHeap
  /\ \E testRetries \in Retries, configRetries \in Retries :
       call = [op |-> "runTestWithRetries", pc |-> "loop",
               testRetries |-> testRetries, configRetries |-> configRetries,
               maxRetries |-> maxRetriesOf(testRetries, configRetries),
               attempt |-> 0, lastResult |-> NoTestResult,
               results |-> <<>>, ret |-> NoTestResult]

\* one turn of the loop: the wait of a retry, `runTest`, and the return of a
\* result that is no error
Attempt ==
  /\ call.op = "runTestWithRetries"
  /\ call.pc = "loop"
  /\ call.attempt < call.maxRetries
  /\ \E met \in TestOutcomes :
       LET result == runTest(met, Len(call.results) + 1) IN
       call' = IF result.status # "error"
               THEN [call EXCEPT !.pc = "returned",
                                 !.lastResult = [result EXCEPT !.retryCount = call.attempt],
                                 !.results = Append(@, result),
                                 !.ret = [result EXCEPT !.retryCount = call.attempt]]
               ELSE [call EXCEPT !.lastResult = result,
                                 !.results = Append(@, result),
                                 !.attempt = @ + 1]
  /\ UNCHANGED <<registry, stack, nextId, heap>>

\* the loop is over: `return lastResult || {...}`
AttemptsOver ==
  /\ call.op = "runTestWithRetries"
  /\ call.pc = "loop"
  /\ ~(call.attempt < call.maxRetries)
  /\ call' = [call EXCEPT !.pc = "returned",
                          !.ret = IF call.lastResult # NoTestResult
                                  THEN call.lastResult
                                  ELSE NoAttemptResult(call.maxRetries)]
  /\ UNCHANGED <<registry, stack, nextId, heap>>

NextRetry == Attempt \/ AttemptsOver

SpecRetry == InitRetry /\ [][NextRetry]_vars

\* ---------------------------------------------------------------------- C39
\* maxRetries as stated: the retries of the test case, else those of the
\* configuration, else 1 (a number that is not set or is 0 is no number of retries)
StatedMaxRetries ==
  IF call.testRetries \notin {<<>>, <<0>>} THEN call.testRetries[1]
  ELSE IF call.configRetries \notin {<<>>, <<0>>} THEN call.configRetries[1]
  ELSE 1

\* C39: runTestWithRetries calls runTest at most maxRetries times, calls it
\* again only after a result with status 'error', returns the first result
\* that is no error with retryCount the zero-based index of its attempt, and
\* returns the last error result when every attempt ended in 'error'.
C39_RetriesOnlyAfterError ==
  call.op = "runTestWithRetries" =>
    LET results == call.results
        n == Len(results)
    IN
    /\ n <= StatedMaxRetries
    /\ \A i \in 1..(n - 1) : results[i].status = "error"
    /\ call.pc = "returned" =>
         /\ n >= 1
         /\ call.ret.status = results[n].status
         /\ call.ret.timestamp = results[n].timestamp
         /\ results[n].status # "error" => call.ret.retryCount = n - 1
         /\ results[n].status = "error" => call.ret = results[n]

\* the test case asks for three attempts and the configuration for two: two
\* errors, then a failure that is returned with retryCount 2
C39_Witness ==
  /\ call.op = "runTestWithRetries"
  /\ call.pc = "returned"
  /\ call.testRetries = <<3>>
  /\ call.configRetries = <<2>>
  /\ Len(call.results) = 3
  /\ call.results[1].status = "error"
  /\ call.results[2].status = "error"
  /\ call.ret.status = "failed"
  /\ call.ret.retryCount = 2

====
